---------------------------- MODULE Spec2Model ----------------------------
(***************************************************************************)
(* A model of the flux-modprobe task planner and executor                  *)
(* (src/src/bindings/python/flux/modprobe.py): the task database, the      *)
(* solver, the predecessor-map builder and the thread-pool executor;       *)
(* of the tasks of etc/rc1.py and etc/rc3.py that restore and dump the     *)
(* content store; and of the flux-modprobe command                         *)
(* (src/src/cmd/flux-modprobe.py).                                         *)
(***************************************************************************)
EXTENDS Integers, Sequences, FiniteSets, TLC

VARIABLES
    taskdb,      \* Modprobe.taskdb: [tasks: key -> list of task ids, obj: id -> Task]
    broker,      \* what the broker answers: [rank, attrs, conf]
    cli,         \* the Modprobe object of the flux-modprobe command
    context,     \* Context._data and Context.module_args
    modules,     \* the names handed to Modprobe.load
    decl,        \* the ordering declared last: <<task id, successor name>>
    runs,        \* calls of Modprobe.run made so far on this Modprobe
    pc,          \* position of the main thread
    solved,      \* result of Modprobe.solve
    deps,        \* the predecessor map handed to Modprobe.run
    sorter,      \* the TopologicalSorter of run
    ready,       \* the tuple returned by sorter.get_ready(), not yet iterated
    started,     \* run's local dict 'started' (its keys)
    futures,     \* run's local dict 'futures': future id -> task id
    done,        \* the 'done' set returned by concurrent.futures.wait
    nfutures,    \* number of futures created so far by executor.submit
    pool,        \* the ThreadPoolExecutor: [queue, idle, nthreads, base]
    thread,      \* worker threads: thread id -> [state, item]
    result,      \* the Future objects made by submit: [task, state, run],
                 \* the state being "pending", "ok" or "raise"
    exitcode,    \* Modprobe.exitcode
    stderr,      \* lines printed to sys.stderr: <<task name>> per line
    now,         \* time.time()
    tls,         \* Context.tls._handle per thread (0 while it has none)
    handles,     \* flux.Flux() handles created: handle id -> creating thread
    used,        \* uses of a handle: set of <<handle id, thread>>
    error,       \* the exception that ended the main thread ("" for none)
    active,      \* Modprobe._active_tasks
    loaded,      \* the modules the broker lists as loaded (module.list)
    oplog        \* the calls made on the TaskDB and the Modprobe so far

vars == <<taskdb, broker, cli, context, modules, decl, runs, pc, solved, deps, sorter, ready, started,
          futures, done, nfutures, pool, thread, result, exitcode, stderr,
          now, tls, handles, used, error,
         active, loaded, oplog>>

\* None, and a value that is not None (a timestamp), as Python sees them
None == <<>>

\* the flux-modprobe command is not in use
NoCli == <<>>

Some(v) == <<v>>

-----------------------------------------------------------------------------
(* Sequences as Python lists *)

Last(s) == s[Len(s)]

Range(s) == {s[i] : i \in 1..Len(s)}

Contains(s, x) == \E i \in 1..Len(s) : s[i] = x

\* A Python set iterates in an order the program does not control; the lists
\* built from it are read back as collections only, so one order is taken.
RECURSIVE SetToSeq(_)
SetToSeq(S) ==
    IF S = {} THEN <<>>
    ELSE LET x == CHOOSE y \in S : TRUE
         IN <<x>> \o SetToSeq(S \ {x})

Get(kw, key, default) == IF key \in DOMAIN kw THEN kw[key] ELSE default

-----------------------------------------------------------------------------
(* Rank predicates *)

\* A rank expression is a token list: <<"all">>, <<"ids", {0, 1}>>, <<">", 0>>, <<"<", 1>>
RankConditional(arg) ==
    [cls |-> "RankConditional", gt |-> (arg[1] = ">"), rank |-> arg[2]]

RankIDset(arg) ==
    IF arg[1] = "all"
    THEN [cls |-> "RankIDset", all |-> TRUE, ranks |-> {}]
    ELSE [cls |-> "RankIDset", all |-> FALSE, ranks |-> arg[2]]

rank_conditional(arg) ==
    IF arg[1] \in {">", "<"} THEN RankConditional(arg) ELSE RankIDset(arg)

\* a test in which '>N' and '<N' also accept rank N
rank_test_inclusive(r, rank) ==
    IF r.cls = "RankConditional"
    THEN (IF r.gt THEN rank >= r.rank ELSE rank <= r.rank)
    ELSE (IF r.all THEN TRUE ELSE rank \in r.ranks)

rank_test(r, rank) ==
    IF r.cls = "RankConditional"
    THEN (IF r.gt THEN rank > r.rank ELSE rank < r.rank)
    ELSE (IF r.all THEN TRUE ELSE rank \in r.ranks)

-----------------------------------------------------------------------------
(* Tasks *)

\* Task.__init__: every VALID_ARGS attribute takes its default when not given
Task(name, run, kw) ==
    [name            |-> name,
     starttime       |-> None,
     endtime         |-> None,
     ranks           |-> rank_conditional(Get(kw, "ranks", <<"all">>)),
     provides        |-> Get(kw, "provides", <<>>),
     requires        |-> Get(kw, "requires", <<>>),
     needs           |-> Get(kw, "needs", <<>>),
     before          |-> Get(kw, "before", <<>>),
     after           |-> Get(kw, "after", <<>>),
     requires_attrs  |-> Get(kw, "requires_attrs", <<>>),
     requires_config |-> Get(kw, "requires_config", <<>>),
     disabled        |-> Get(kw, "disabled", FALSE),
     run             |-> run]

\* the task() decorator: a CodeTask whose body is the decorated function
CodeTask(name, kw) == Task(name, "func", kw)

\* Module.__init__: a task whose body is Module.load
Module(conf) == Task(conf.name, "load", conf)

\* a broker value is truthy unless absent or empty
Truthy(table, key) == key \in DOMAIN table /\ table[key] # ""

\* Task.enabled
enabled(t, ctx) ==
    /\ ~t.disabled
    /\ rank_test(t.ranks, ctx.rank)
    /\ \A i \in 1..Len(t.requires_config) : Truthy(ctx.conf, t.requires_config[i])
    /\ \A i \in 1..Len(t.requires_attrs) : Truthy(ctx.attrs, t.requires_attrs[i])

-----------------------------------------------------------------------------
(* TaskDB *)

\* every key the model ever looks up; TaskDB.tasks is a defaultdict(list)
Keys == {"a", "b", "c", "d", "svc", "x",
         "content-backing", "content-sqlite", "content-files", "kvs",
         "check-restore", "restore",
         "post-finish-event", "content-dump", "content-flush"}

EmptyDB == [tasks |-> [k \in Keys |-> <<>>], obj |-> <<>>]

RECURSIVE AppendUnder(_, _, _)
AppendUnder(tasks, names, id) ==
    IF names = <<>> THEN tasks
    ELSE AppendUnder([tasks EXCEPT ![Head(names)] = Append(@, id)], Tail(names), id)

\* TaskDB.add: the task object gets the next id of the heap
TaskDB_add(db, t) ==
    LET id == Len(db.obj) + 1
    IN [tasks |-> AppendUnder(db.tasks, Append(t.provides, t.name), id),
        obj   |-> Append(db.obj, t)]

\* TaskDB.get with the head of the list in place of its tail
TaskDB_get_head(db, service) ==
    IF Len(db.tasks[service]) = 0 THEN 0 ELSE Head(db.tasks[service])

\* TaskDB.get: the id of the task at the tail of the list; 0 stands for the
\* ValueError raised on IndexError (task ids start at 1)
TaskDB_get(db, service) ==
    IF Len(db.tasks[service]) = 0 THEN 0 ELSE Last(db.tasks[service])

\* TaskDB.disable that marks the current task of the service only
TaskDB_disable_current(db, service) ==
    [db EXCEPT !.obj = [i \in 1..Len(db.obj) |->
        IF db.tasks[service] # <<>> /\ i = Last(db.tasks[service])
        THEN [db.obj[i] EXCEPT !.disabled = TRUE] ELSE db.obj[i]]]

\* TaskDB.disable: every task object in the list of the service is marked
TaskDB_disable(db, service) ==
    [db EXCEPT !.obj = [i \in 1..Len(db.obj) |->
        IF Contains(db.tasks[service], i)
        THEN [db.obj[i] EXCEPT !.disabled = TRUE] ELSE db.obj[i]]]

\* next(i for i, x in enumerate(lst) if x.name == name), counted from 1;
\* 0 stands for StopIteration
FirstNamed(db, lst, name) ==
    IF \E i \in 1..Len(lst) : db.obj[lst[i]].name = name
    THEN CHOOSE i \in 1..Len(lst) :
            /\ db.obj[lst[i]].name = name
            /\ \A j \in 1..(i - 1) : db.obj[lst[j]].name # name
    ELSE 0

\* the list after lst.pop(index)
ListPop(lst, index) == SubSeq(lst, 1, index - 1) \o SubSeq(lst, index + 1, Len(lst))

\* TaskDB.set_alternative that disables the service when no provider has
\* the name
TaskDB_set_alternative_or_disable(db, service, name) ==
    IF name = None THEN [err |-> "", db |-> TaskDB_disable(db, service)]
    ELSE LET lst   == db.tasks[service]
             index == FirstNamed(db, lst, name[1])
         IN IF index = 0
            THEN [err |-> "ValueError", db |-> TaskDB_disable(db, service)]
            ELSE [err |-> "",
                  db  |-> [db EXCEPT !.tasks[service] =
                               Append(ListPop(lst, index), lst[index])]]

\* TaskDB.set_alternative that validates the name and leaves the list alone
TaskDB_set_alternative_keep(db, service, name) ==
    IF name = None THEN [err |-> "", db |-> TaskDB_disable(db, service)]
    ELSE IF FirstNamed(db, db.tasks[service], name[1]) = 0
         THEN [err |-> "ValueError", db |-> db]
         ELSE [err |-> "", db |-> db]

\* TaskDB.set_alternative: [err, db]; name is None or Some(a task name)
TaskDB_set_alternative(db, service, name) ==
    IF name = None THEN [err |-> "", db |-> TaskDB_disable(db, service)]
    ELSE LET lst   == db.tasks[service]
             index == FirstNamed(db, lst, name[1])
         IN IF index = 0 THEN [err |-> "ValueError", db |-> db]
            ELSE [err |-> "",
                  db  |-> [db EXCEPT !.tasks[service] =
                               Append(ListPop(lst, index), lst[index])]]

\* Modprobe.get_task
get_task(db, name) == TaskDB_get(db, name)

\* name of the task providing 'name' (the caller has checked that one exists)
NameOf(db, name) == db.obj[get_task(db, name)].name

RECURSIVE AddAll(_, _)
AddAll(db, ts) ==
    IF ts = <<>> THEN db ELSE AddAll(TaskDB_add(db, Head(ts)), Tail(ts))

-----------------------------------------------------------------------------
(* Solver *)

\* deepest chain of solve_tasks_recursive calls followed before the
\* interpreter's RecursionError is reported
MaxDepth == 25

RECURSIVE solve_tasks_recursive(_, _, _, _, _), solve_visit(_, _, _, _, _, _)

\* Modprobe.solve_tasks_recursive; st carries the shared 'visited' and
\* 'skipped' sets and the exception raised so far ("" for none)
solve_tasks_recursive(db, ctx, tasks, st, depth) ==
    IF depth > MaxDepth
    THEN [visited |-> st.visited, skipped |-> st.skipped,
          err |-> "RecursionError", result |-> {}]
    ELSE LET to_visit == SelectSeq(tasks, LAMBDA x : x \notin st.visited)
         IN solve_visit(db, ctx, to_visit, 1,
                        [visited |-> st.visited, skipped |-> st.skipped,
                         err |-> st.err, result |-> {}], depth)

\* the loop 'for name in to_visit' from its i-th element on
solve_visit(db, ctx, to_visit, i, acc, depth) ==
    IF i > Len(to_visit) \/ acc.err # "" THEN acc
    ELSE LET id == get_task(db, to_visit[i]) IN
         IF id = 0 THEN [acc EXCEPT !.err = "ValueError"]
         ELSE LET t  == db.obj[id]
                  en == enabled(t, ctx)
                  a1 == [acc EXCEPT
                           !.result  = IF en THEN @ \cup {t.name} ELSE @,
                           !.skipped = IF en THEN @ ELSE @ \cup {t.name},
                           !.visited = @ \cup {t.name}]
                  a2 == IF t.requires # <<>>
                        THEN LET r == solve_tasks_recursive(db, ctx, t.requires,
                                         [visited |-> a1.visited,
                                          skipped |-> a1.skipped,
                                          err |-> ""], depth + 1)
                             IN [visited |-> r.visited, skipped |-> r.skipped,
                                 err |-> r.err,
                                 result |-> a1.result \cup r.result]
                        ELSE a1
              IN solve_visit(db, ctx, to_visit, i + 1, a2, depth)

\* Modprobe.solve: [err, result]
solve(db, ctx, tasks) ==
    LET r == solve_tasks_recursive(db, ctx, tasks,
                 [visited |-> {}, skipped |-> {}, err |-> ""], 1)
    IN [err |-> r.err, result |-> r.result]

-----------------------------------------------------------------------------
(* Predecessor map *)

\* dict assignment d[k] = v
Put(d, k, v) == [x \in DOMAIN d \cup {k} |-> IF x = k THEN v ELSE d[x]]

EmptyDict == [x \in {} |-> <<>>]

\* [f(x) for x in s]
RECURSIVE NamesOf(_, _)
NamesOf(db, s) ==
    IF s = <<>> THEN <<>> ELSE <<NameOf(db, Head(s))>> \o NamesOf(db, Tail(s))

\* every name of the list has a task in the database
Resolves(db, s) == \A i \in 1..Len(s) : get_task(db, s[i]) # 0

\* deps_add_all without the exclusion: 'name' precedes every other task of
\* deps, also those that declare before=["*"]
RECURSIVE deps_add_all_others(_, _, _, _)
deps_add_all_others(db, keys, name, acc) ==
    IF keys = <<>> \/ acc.err # "" THEN acc
    ELSE LET t == db.obj[get_task(db, Head(keys))] IN
         IF t.name = name
         THEN deps_add_all_others(db, Tail(keys), name, acc)
         ELSE IF t.name \notin DOMAIN acc.deps
         THEN [acc EXCEPT !.err = "KeyError"]
         ELSE deps_add_all_others(db, Tail(keys), name,
                  [acc EXCEPT !.deps[t.name] = Append(@, name)])

\* deps_add_all of process_before: 'name' precedes every task of deps that
\* does not itself declare before=["*"]
RECURSIVE deps_add_all(_, _, _, _)
deps_add_all(db, keys, name, acc) ==
    IF keys = <<>> \/ acc.err # "" THEN acc
    ELSE LET t == db.obj[get_task(db, Head(keys))] IN
         IF Contains(t.before, "*")
         THEN deps_add_all(db, Tail(keys), name, acc)
         ELSE IF t.name \notin DOMAIN acc.deps
         THEN [acc EXCEPT !.err = "KeyError"]
         ELSE deps_add_all(db, Tail(keys), name,
                  [acc EXCEPT !.deps[t.name] = Append(@, name)])

\* the loop 'for successor in task.before' of process_before
RECURSIVE before_loop(_, _, _, _)
before_loop(db, t, before, acc) ==
    IF before = <<>> \/ acc.err # "" THEN acc
    ELSE LET successor == Head(before) IN
         IF successor = "*"
         THEN before_loop(db, t, Tail(before),
                  deps_add_all(db, SetToSeq(DOMAIN acc.deps), t.name, acc))
         ELSE IF get_task(db, successor) = 0
         THEN [acc EXCEPT !.err = "ValueError"]
         ELSE LET real == NameOf(db, successor) IN
              before_loop(db, t, Tail(before),
                  IF real \in DOMAIN acc.deps
                  THEN [acc EXCEPT !.deps[real] = Append(@, t.name)]
                  ELSE acc)

\* (mutant) the before lists are ignored
process_before_none(db, tasks, acc) == acc

\* Modprobe.process_before
RECURSIVE process_before(_, _, _)
process_before(db, tasks, acc) ==
    IF tasks = <<>> \/ acc.err # "" THEN acc
    ELSE LET t == db.obj[get_task(db, Head(tasks))]
         IN process_before(db, Tail(tasks), before_loop(db, t, t.before, acc))

\* (mutant) the after lists are ignored
after_loop_none(db, all, rest, acc) ==
    [acc EXCEPT !.deps = [n \in Range(all) |-> <<>>]]

\* the loop 'for name in tasks' of get_deps from the rest of the list on;
\* 'all' is the whole collection handed to get_deps
RECURSIVE after_loop(_, _, _, _)
after_loop(db, all, rest, acc) ==
    IF rest = <<>> \/ acc.err # "" THEN acc
    ELSE LET id == get_task(db, Head(rest)) IN
         IF id = 0 THEN [acc EXCEPT !.err = "ValueError"]
         ELSE LET t == db.obj[id] IN
              IF Contains(t.after, "*")
              THEN LET others == SelectSeq(all, LAMBDA x : x # t.name) IN
                   IF ~Resolves(db, others) THEN [acc EXCEPT !.err = "ValueError"]
                   ELSE after_loop(db, all, Tail(rest),
                            [acc EXCEPT !.deps = Put(@, t.name, NamesOf(db, others))])
              ELSE IF ~Resolves(db, t.after) THEN [acc EXCEPT !.err = "ValueError"]
              ELSE LET after_tasks == NamesOf(db, t.after) IN
                   after_loop(db, all, Tail(rest),
                       [acc EXCEPT !.deps = Put(@, t.name,
                           SelectSeq(after_tasks, LAMBDA x : Contains(all, x)))])

\* Modprobe.get_deps: [err, deps], deps a dict of names to predecessor lists
get_deps(db, tasks) ==
    LET a == after_loop(db, tasks, tasks, [err |-> "", deps |-> EmptyDict])
    IN process_before(db, tasks, a)

-----------------------------------------------------------------------------
(* Needs *)

\* TaskDB.any_provides: [err, val]; every name of 'tasks' is looked up
\* before the first provider is tested
any_provides(db, tasks, name) ==
    IF ~Resolves(db, tasks) THEN [err |-> "ValueError", val |-> FALSE]
    ELSE [err |-> "",
          val |-> \E i \in 1..Len(tasks) :
                     LET t == db.obj[TaskDB_get(db, tasks[i])]
                     IN ~t.disabled /\ (name = t.name \/ Contains(t.provides, name))]

\* list.remove(x): the list without the first occurrence of x
RECURSIVE ListRemove(_, _)
ListRemove(s, x) ==
    IF s = <<>> THEN <<>>
    ELSE IF Head(s) = x THEN Tail(s)
    ELSE <<Head(s)>> \o ListRemove(Tail(s), x)

\* the loop 'for need in task.needs' of process_needs; acc.tasks is the list
\* being pruned in place
RECURSIVE needs_loop(_, _, _, _)
needs_loop(db, name, needs, acc) ==
    IF needs = <<>> \/ acc.err # "" THEN acc
    ELSE LET ap == any_provides(db, acc.tasks, Head(needs)) IN
         IF ap.err # "" THEN [acc EXCEPT !.err = ap.err]
         ELSE needs_loop(db, name, Tail(needs),
                  IF ~ap.val /\ Contains(acc.tasks, name)
                  THEN [acc EXCEPT !.tasks = ListRemove(@, name)]
                  ELSE acc)

\* the loop 'for name in tasks.copy()' of process_needs
RECURSIVE process_needs_loop(_, _, _)
process_needs_loop(db, copy, acc) ==
    IF copy = <<>> \/ acc.err # "" THEN acc
    ELSE LET id == get_task(db, Head(copy)) IN
         IF id = 0 THEN [acc EXCEPT !.err = "ValueError"]
         ELSE process_needs_loop(db, Tail(copy),
                  needs_loop(db, Head(copy), db.obj[id].needs, acc))

\* Modprobe.process_needs: [err, tasks], one pass over a copy of the list
process_needs(db, tasks) ==
    process_needs_loop(db, tasks, [err |-> "", tasks |-> tasks])

\* Modprobe.active_tasks: [err, active, val]; 'active' is _active_tasks as
\* process_needs leaves it, 'val' the list the property returns
active_tasks(db, ctx, act) ==
    LET r == process_needs(db, act) IN
    [err    |-> r.err,
     active |-> r.tasks,
     val    |-> IF r.err # "" THEN <<>>
                ELSE SelectSeq(r.tasks,
                         LAMBDA n : enabled(db.obj[get_task(db, n)], ctx))]

-----------------------------------------------------------------------------
(* Removal planner *)

\* ModuleList.loaded_modules of a module.list response
loaded_modules(resp) == [i \in 1..Len(resp) |-> resp[i].name]

\* what ModuleList.lookup returns for a name no loaded module serves (None)
NotLoaded == "None"

\* ModuleList.lookup: servicemap keeps the last entry that lists the service
lookup(resp, name) ==
    LET hits == {i \in 1..Len(resp) : Contains(resp[i].services, name)}
    IN IF hits = {} THEN NotLoaded
       ELSE resp[CHOOSE i \in hits : \A j \in hits : j <= i].name

\* Modprobe.has_task
has_task(db, name) == get_task(db, name) # 0

\* the value of a defaultdict(set) under key k
SetAt(d, k) == IF k \in DOMAIN d THEN d[k] ELSE {}

\* a loop that records the predecessors of name under name itself: the
\* dependencies, not reversed
rdeps_add_forward(resp, rdeps, name, deplist) ==
    Put(rdeps, name, SetAt(rdeps, name) \cup Range(deplist))

\* rdeps[mlist.lookup(mod)].add(name) for every mod of deplist
RECURSIVE rdeps_add(_, _, _, _)
rdeps_add(resp, rdeps, name, deplist) ==
    IF deplist = <<>> THEN rdeps
    ELSE LET k == lookup(resp, Head(deplist))
         IN rdeps_add(resp, Put(rdeps, k, SetAt(rdeps, k) \cup {name}),
                      name, Tail(deplist))

\* the loop 'for name, deplist in deps.items()'
RECURSIVE reverse_deps(_, _, _, _)
reverse_deps(resp, deps_, names, rdeps) ==
    IF names = <<>> THEN rdeps
    ELSE reverse_deps(resp, deps_, Tail(names),
                      rdeps_add(resp, rdeps, Head(names), deps_[Head(names)]))

\* remove_dep that takes a module as unused as soon as one of its reverse
\* dependents is removed
RECURSIVE remove_dep_eager(_, _, _, _)
remove_dep_eager(resp, items, st, name) ==
    IF items = <<>> THEN st
    ELSE LET modname == Head(items) IN
         IF name \notin st.rdeps[modname]
         THEN remove_dep_eager(resp, Tail(items), st, name)
         ELSE LET st1 == [st EXCEPT !.rdeps[modname] = {}]
                  st2 == remove_dep_eager(resp, SetToSeq(DOMAIN st.rdeps), st1, modname)
                  st3 == IF Contains(loaded_modules(resp), modname)
                         THEN [st2 EXCEPT !.modules = Append(@, modname)]
                         ELSE st2
              IN remove_dep_eager(resp, Tail(items), st3, name)

\* remove_dep that leaves the reverse dependencies and the request alone
remove_dep_none(resp, items, st, name) == st

\* remove_dep of solve_modules_remove: the loop over the items still to
\* visit of rdeps_copy; st is [rdeps, modules], both changed in place.
\* The entries are visited in one fixed order: the order decides only the
\* order of the names appended to modules
RECURSIVE remove_dep(_, _, _, _)
remove_dep(resp, items, st, name) ==
    IF items = <<>> THEN st
    ELSE LET modname == Head(items) IN
         IF st.rdeps[modname] = {} THEN remove_dep(resp, Tail(items), st, name)
         ELSE LET st1 == [st EXCEPT !.rdeps[modname] = @ \ {name}] IN
              IF st1.rdeps[modname] # {}
              THEN remove_dep(resp, Tail(items), st1, name)
              ELSE LET st2 == remove_dep(resp, SetToSeq(DOMAIN st.rdeps), st1, modname)
                       st3 == IF Contains(loaded_modules(resp), modname)
                              THEN [st2 EXCEPT !.modules = Append(@, modname)]
                              ELSE st2
                   IN remove_dep(resp, Tail(items), st3, name)

\* the loop 'for name in modules: remove_dep(mlist.lookup(name))', which
\* also visits the names appended while it runs
RECURSIVE remove_deps(_, _, _)
remove_deps(resp, st, i) ==
    IF i > Len(st.modules) THEN st
    ELSE remove_deps(resp,
             remove_dep(resp, SetToSeq(DOMAIN st.rdeps), st,
                        lookup(resp, st.modules[i])),
             i + 1)

\* the error raised for a module that is still in use
InUse == "ValueError: still in use"

\* Modprobe.solve_modules_remove: [err, modules, tasks, deps]; 'modules' is
\* the caller's list as the planner leaves it
solve_modules_remove(db, resp, modules_) ==
    LET all_modules == SelectSeq(loaded_modules(resp), LAMBDA x : has_task(db, x))
        request     == IF modules_ = <<>> THEN all_modules ELSE modules_
        failed(e)   == [err |-> e, modules |-> request, tasks |-> {},
                        deps |-> EmptyDict]
    IN
    IF \E i \in 1..Len(request) : lookup(resp, request[i]) = NotLoaded
    THEN failed("ValueError")
    ELSE LET d == get_deps(db, all_modules) IN
    IF d.err # "" THEN failed(d.err)
    ELSE LET rdeps == reverse_deps(resp, d.deps, SetToSeq(DOMAIN d.deps), EmptyDict)
             st    == remove_deps(resp, [rdeps |-> rdeps, modules |-> request], 1)
         IN
         IF \E i \in 1..Len(st.modules) : SetAt(st.rdeps, st.modules[i]) # {}
         THEN [failed(InUse) EXCEPT !.modules = st.modules]
         ELSE LET tasks == {lookup(resp, st.modules[i]) : i \in 1..Len(st.modules)}
                               \ {NotLoaded}
              IN [err     |-> "",
                  modules |-> st.modules,
                  tasks   |-> tasks,
                  deps    |-> [name \in tasks |->
                                 SetToSeq(SetAt(rdeps, name) \cap tasks)]]

\* (mutant) a module marked for removal keeps its load-time orderings
set_remove_unswapped(t) ==
    [t EXCEPT !.needs = <<>>, !.requires = <<>>, !.run = "remove"]

\* Module.set_remove
set_remove(t) ==
    [t EXCEPT !.after = t.before, !.before = t.after, !.needs = <<>>,
              !.requires = <<>>, !.run = "remove"]

\* [self.get_task(x).set_remove() for x in deps.keys()]; the planner's
\* tasks are loaded modules that have a task
RECURSIVE set_remove_all(_, _)
set_remove_all(db, names) ==
    IF names = <<>> THEN db
    ELSE set_remove_all([db EXCEPT !.obj[get_task(db, Head(names))] = set_remove(@)],
                        Tail(names))

-----------------------------------------------------------------------------
(* TopologicalSorter, as Modprobe.run uses it *)

\* how many times p occurs in the list s
RECURSIVE Count(_, _)
Count(s, p) ==
    IF s = <<>> THEN 0
    ELSE (IF Head(s) = p THEN 1 ELSE 0) + Count(Tail(s), p)

\* nodes of the graph: the keys and every predecessor named
Nodes(graph) == DOMAIN graph \cup UNION {Range(graph[k]) : k \in DOMAIN graph}

\* predecessor list of a node (a node only named as a predecessor has none)
Preds(graph, n) == IF n \in DOMAIN graph THEN graph[n] ELSE <<>>

\* nodes left after repeatedly removing the nodes of 'left' with no
\* predecessor in 'left': empty iff the graph has no cycle
RECURSIVE CycleNodes(_, _)
CycleNodes(graph, left) ==
    LET free == {n \in left : Range(Preds(graph, n)) \cap left = {}}
    IN IF free = {} THEN left ELSE CycleNodes(graph, left \ free)

\* TopologicalSorter(graph): add(node, *predecessors) for every item.
\* npredecessors counts every occurrence of a predecessor.
NODE_OUT == -1

NODE_DONE == -2

TopologicalSorter(graph) ==
    [graph       |-> graph,
     npred       |-> [n \in Nodes(graph) |-> Len(Preds(graph, n))],
     ready_nodes |-> {},
     npassedout  |-> 0,
     nfinished   |-> 0]

\* TopologicalSorter.prepare: the nodes without predecessors are ready;
\* CycleError when the graph has a cycle
sorter_prepare(ts) ==
    [ts EXCEPT !.ready_nodes = {n \in DOMAIN ts.npred : ts.npred[n] = 0}]

sorter_has_cycle(ts) == CycleNodes(ts.graph, Nodes(ts.graph)) # {}

\* TopologicalSorter.is_active
sorter_is_active(ts) == ts.nfinished < ts.npassedout \/ ts.ready_nodes # {}

\* TopologicalSorter.get_ready: the sorter after the ready nodes are passed out
sorter_get_ready(ts) ==
    [ts EXCEPT !.npred = [n \in DOMAIN @ |->
                             IF n \in ts.ready_nodes THEN NODE_OUT ELSE @[n]],
               !.ready_nodes = {},
               !.npassedout = @ + Cardinality(ts.ready_nodes)]

\* TopologicalSorter.done(node) raises ValueError unless node was passed out
\* and is not yet marked done
sorter_done_ok(ts, node) == node \in DOMAIN ts.npred /\ ts.npred[node] = NODE_OUT

\* TopologicalSorter.done(node): each successor loses one predecessor per
\* occurrence of node in its list and is ready at zero
sorter_done(ts, node) ==
    LET np == [n \in DOMAIN ts.npred |->
                  IF n = node THEN NODE_DONE
                  ELSE ts.npred[n] - Count(Preds(ts.graph, n), node)]
    IN [ts EXCEPT !.npred = np,
                  !.ready_nodes = @ \cup {n \in DOMAIN np :
                                            /\ n # node
                                            /\ Count(Preds(ts.graph, n), node) > 0
                                            /\ np[n] = 0},
                  !.nfinished = @ + 1]

NoSorter == TopologicalSorter(EmptyDict)

-----------------------------------------------------------------------------
(* Threads, the pool and the per-thread broker handle *)

\* the thread that constructs the Modprobe and calls run; workers are 1, 2, ...
MainThread == 0

\* (mutant) a pool of one worker
max_workers_one == 2 - 1

\* ThreadPoolExecutor(max_workers): 5 before Python 3.8, and never fewer on
\* later versions (min(32, cpu_count + 4))
max_workers == 5

\* calls of run followed on one Modprobe
MaxRuns == 2

\* every run makes its own executor, whose threads are new threads
Workers == 1..(max_workers * MaxRuns)

NewPool(run) == [queue |-> <<>>, idle |-> 0, nthreads |-> 0,
                 base |-> max_workers * (run - 1)]

\* (mutant) one slot shared by all threads, as a plain attribute would be
tls_shared(th) == MainThread

\* the slot of threading.local() that thread th sees
tls_slot(th) == th

\* Context.handle read by thread th: the state after the read, the handle
\* being created on the thread's first use; [tls, handles, used]
context_handle(th, h) ==
    LET slot == tls_slot(th) IN
    IF h.tls[slot] = 0
    THEN LET id == Len(h.handles) + 1
         IN [tls     |-> [h.tls EXCEPT ![slot] = id],
             handles |-> Append(h.handles, th),
             used    |-> h.used \cup {<<id, th>>}]
    ELSE [tls     |-> h.tls,
          handles |-> h.handles,
          used    |-> h.used \cup {<<h.tls[slot], th>>}]

Handles == [tls |-> tls, handles |-> handles, used |-> used]

SetHandles(h) == tls' = h.tls /\ handles' = h.handles /\ used' = h.used

\* Context.__init__: no data and no module options
NewContext == [data |-> EmptyDict, module_args |-> EmptyDict]

\* Modprobe.__init__: exitcode 0, a Context, and the handle of the
\* constructing thread (self.handle = self.context.handle)
ModprobeInit ==
    /\ cli = NoCli
    /\ context = NewContext
    /\ exitcode = 0
    /\ LET h == context_handle(MainThread,
                   [tls |-> [t \in {MainThread} \cup Workers |-> 0],
                    handles |-> <<>>, used |-> {}])
       IN tls = h.tls /\ handles = h.handles /\ used = h.used

\* no run has been called yet
NoRun ==
    /\ solved = {}
    /\ deps = EmptyDict
    /\ sorter = NoSorter
    /\ ready = {}
    /\ started = EmptyDict
    /\ futures = EmptyDict
    /\ done = {}
    /\ nfutures = 0
    /\ pool = NewPool(1)
    /\ runs = 0
    /\ thread = [w \in Workers |-> [state |-> "none", item |-> 0]]
    /\ result = <<>>
    /\ stderr = <<>>
    /\ now = 0
    /\ error = ""
    /\ decl = <<>>

\* no task was activated, no module is loaded and nothing has been called
NoCalls ==
    /\ active = <<>>
    /\ loaded = <<>>
    /\ oplog = <<>>

-----------------------------------------------------------------------------
(* Modprobe.load and Modprobe.run *)

\* an exception leaves the main thread
Raise(e) == pc' = "raised" /\ error' = e

\* dict with key k deleted
Del(d, k) == [x \in DOMAIN d \ {k} |-> d[x]]

\* Modprobe.load up to its call of run: solve, then get_deps
Load ==
    /\ pc = "load"
    /\ SetHandles(context_handle(MainThread, Handles))
    /\ LET r == solve(taskdb, broker, modules) IN
       IF r.err # ""
       THEN Raise(r.err) /\ UNCHANGED <<solved, deps>>
       ELSE LET d == get_deps(taskdb, SetToSeq(r.result)) IN
            /\ solved' = r.result
            /\ IF d.err # ""
               THEN Raise(d.err) /\ UNCHANGED deps
               ELSE deps' = d.deps /\ pc' = "run" /\ UNCHANGED error
    /\ UNCHANGED <<taskdb, broker, cli, context, active, loaded, oplog, modules, decl, runs, sorter, ready, started, futures,
                   done, nfutures, pool, thread, result, exitcode, stderr, now>>

\* (mutant) the CycleError of prepare is swallowed
PrepareIgnoringCycle ==
    /\ pc = "run"
    /\ runs' = runs + 1
    /\ sorter' = sorter_prepare(TopologicalSorter(deps))
    /\ pool' = NewPool(runs')
    /\ started' = EmptyDict
    /\ futures' = EmptyDict
    /\ pc' = "loop"
    /\ UNCHANGED <<taskdb, broker, cli, context, active, loaded, oplog, modules, decl, solved, deps, ready, done,
                   nfutures, thread, result, exitcode, stderr, now, tls,
                   handles, used, error>>

\* (mutant) run starts from a clean exit code
PrepareResetExit ==
    /\ pc = "run"
    /\ runs' = runs + 1
    /\ exitcode' = 0
    /\ LET ts == TopologicalSorter(deps) IN
       IF sorter_has_cycle(ts)
       THEN Raise("CycleError") /\ UNCHANGED <<sorter, pool, started, futures>>
       ELSE /\ sorter' = sorter_prepare(ts)
            /\ pool' = NewPool(runs')
            /\ started' = EmptyDict
            /\ futures' = EmptyDict
            /\ pc' = "loop"
            /\ UNCHANGED error
    /\ UNCHANGED <<taskdb, broker, cli, context, active, loaded, oplog, modules, decl, solved, deps, ready, done,
                   nfutures, thread, result, stderr, now, tls, handles, used>>

\* run: sorter = TopologicalSorter(deps); sorter.prepare(); then the executor
\* and the empty 'futures' and 'started' dicts are created
Prepare ==
    /\ pc = "run"
    /\ runs' = runs + 1
    /\ LET ts == TopologicalSorter(deps) IN
       IF sorter_has_cycle(ts)
       THEN Raise("CycleError") /\ UNCHANGED <<sorter, pool, started, futures>>
       ELSE /\ sorter' = sorter_prepare(ts)
            /\ pool' = NewPool(runs')
            /\ started' = EmptyDict
            /\ futures' = EmptyDict
            /\ pc' = "loop"
            /\ UNCHANGED error
    /\ UNCHANGED <<taskdb, broker, cli, context, active, loaded, oplog, modules, decl, solved, deps, ready, done,
                   nfutures, thread, result, exitcode, stderr, now, tls,
                   handles, used>>

\* run: 'while sorter.is_active()' holds and the ready nodes are resolved
GetReady ==
    /\ pc = "loop"
    /\ sorter_is_active(sorter)
    /\ IF \A n \in sorter.ready_nodes : get_task(taskdb, n) # 0
       THEN /\ ready' = sorter.ready_nodes
            /\ sorter' = sorter_get_ready(sorter)
            /\ pc' = IF ready' = {} THEN "wait" ELSE "submit"
            /\ UNCHANGED error
       ELSE Raise("ValueError") /\ UNCHANGED <<ready, sorter>>
    /\ UNCHANGED <<taskdb, broker, cli, context, active, loaded, oplog, modules, decl, runs, solved, deps, started, futures,
                   done, nfutures, pool, thread, result, exitcode, stderr,
                   now, tls, handles, used>>

\* run: the loop ends, run returns self.exitcode
Return ==
    /\ pc = "loop"
    /\ ~sorter_is_active(sorter)
    /\ pc' = "returned"
    /\ UNCHANGED <<taskdb, broker, cli, context, active, loaded, oplog, modules, decl, runs, solved, deps, sorter, ready,
                   started, futures, done, nfutures, pool, thread, result,
                   exitcode, stderr, now, tls, handles, used, error>>

\* ThreadPoolExecutor.submit: the work item is queued, and a thread is
\* started when fewer than max_workers exist; from Python 3.8 on none is
\* started while a worker that finished an item has not been counted yet
\* (the idle semaphore), which 'spawn' = FALSE stands for
executor_submit(p, th, item, spawn) ==
    LET q == Append(p.queue, item) IN
    IF ~spawn
    THEN [pool |-> [p EXCEPT !.queue = q, !.idle = @ - 1], thread |-> th]
    ELSE IF p.nthreads < max_workers
    THEN [pool   |-> [p EXCEPT !.queue = q, !.nthreads = @ + 1],
          thread |-> [th EXCEPT ![p.base + p.nthreads + 1] =
                                    [state |-> "waiting", item |-> 0]]]
    ELSE [pool |-> [p EXCEPT !.queue = q], thread |-> th]

\* run: one turn of 'for task in [get_task(x) for x in get_ready()]'
Submit(n, spawn) ==
    /\ pc = "submit"
    /\ n \in ready
    /\ spawn \/ pool.idle > 0
    /\ ready' = ready \ {n}
    /\ pc' = IF ready' = {} THEN "wait" ELSE "submit"
    /\ LET id   == get_task(taskdb, n)
           name == taskdb.obj[id].name
       IN IF name \notin DOMAIN started
          THEN LET f == nfutures + 1
                   e == executor_submit(pool, thread, <<f, id>>, spawn)
               IN /\ nfutures' = f
                  /\ futures' = Put(futures, f, id)
                  /\ started' = Put(started, name, id)
                  /\ result' = Append(result, [task |-> id, state |-> "pending",
                                              run |-> runs])
                  /\ pool' = e.pool
                  /\ thread' = e.thread
          ELSE UNCHANGED <<nfutures, futures, started, result, pool, thread>>
    /\ UNCHANGED <<taskdb, broker, cli, context, active, loaded, oplog, modules, decl, runs, solved, deps, sorter, done,
                   exitcode, stderr, now, tls, handles, used, error>>

\* (mutant) every future counts as completed
completed_all(fs, res) == fs

\* the futures of fs that have completed
completed(fs, res) == {f \in fs : res[f].state # "pending"}

\* concurrent.futures.wait(futures.keys(), FIRST_COMPLETED): returns at once
\* when no future is given, else when one has completed
Wait ==
    /\ pc = "wait"
    /\ DOMAIN futures = {} \/ completed(DOMAIN futures, result) # {}
    /\ done' = completed(DOMAIN futures, result)
    /\ pc' = IF done' = {} THEN "loop" ELSE "done"
    /\ UNCHANGED <<taskdb, broker, cli, context, active, loaded, oplog, modules, decl, runs, solved, deps, sorter, ready,
                   started, futures, nfutures, pool, thread, result, exitcode,
                   stderr, now, tls, handles, used, error>>

\* (mutant) the run stops at the first failed task
ProcessDoneFailFast(f) ==
    /\ pc = "done"
    /\ f \in done
    /\ LET name == taskdb.obj[futures[f]].name IN
       IF result[f].state = "raise"
       THEN /\ stderr' = Append(stderr, name)
            /\ exitcode' = 1
            /\ pc' = "returned"
            /\ UNCHANGED <<sorter, futures, done>>
       ELSE /\ sorter' = sorter_done(sorter, name)
            /\ futures' = Del(futures, f)
            /\ done' = done \ {f}
            /\ pc' = IF done' = {} THEN "loop" ELSE "done"
            /\ UNCHANGED <<stderr, exitcode>>
    /\ UNCHANGED <<taskdb, broker, cli, context, active, loaded, oplog, modules, decl, runs, solved, deps, ready,
                   started, nfutures, pool, thread, result, now, tls, handles,
                   used, error>>

\* (mutant) a failed task is not marked done in the sorter
ProcessDoneSkipFailed(f) ==
    /\ pc = "done"
    /\ f \in done
    /\ LET name == taskdb.obj[futures[f]].name IN
       /\ IF result[f].state = "raise"
          THEN stderr' = Append(stderr, name) /\ exitcode' = 1 /\ UNCHANGED sorter
          ELSE sorter' = sorter_done(sorter, name) /\ UNCHANGED <<stderr, exitcode>>
       /\ futures' = Del(futures, f)
       /\ done' = done \ {f}
       /\ pc' = IF done' = {} THEN "loop" ELSE "done"
    /\ UNCHANGED <<taskdb, broker, cli, context, active, loaded, oplog, modules, decl, runs, solved, deps, ready,
                   started, nfutures, pool, thread, result, now, tls, handles,
                   used, error>>

\* run: one turn of 'for future in done'
ProcessDone(f) ==
    /\ pc = "done"
    /\ f \in done
    /\ LET name == taskdb.obj[futures[f]].name IN
       /\ IF result[f].state = "raise"
          THEN stderr' = Append(stderr, name) /\ exitcode' = 1
          ELSE UNCHANGED <<stderr, exitcode>>
       /\ IF sorter_done_ok(sorter, name)
          THEN /\ sorter' = sorter_done(sorter, name)
               /\ futures' = Del(futures, f)
               /\ done' = done \ {f}
               /\ pc' = IF done' = {} THEN "loop" ELSE "done"
               /\ UNCHANGED error
          ELSE Raise("ValueError") /\ UNCHANGED <<sorter, futures, done>>
    /\ UNCHANGED <<taskdb, broker, cli, context, active, loaded, oplog, modules, decl, runs, solved, deps, ready, started,
                   nfutures, pool, thread, result, now, tls, handles, used>>

\* a worker takes the next work item and calls task.runtask, which sets
\* starttime before the body
WorkerStart(w) ==
    /\ w - pool.base \in 1..pool.nthreads
    /\ thread[w].state = "waiting"
    /\ pool.queue # <<>>
    /\ LET item == Head(pool.queue) IN
       /\ pool' = [pool EXCEPT !.queue = Tail(@)]
       /\ thread' = [thread EXCEPT ![w] = [state |-> "running", item |-> item]]
       /\ now' = now + 1
       /\ taskdb' = [taskdb EXCEPT !.obj[item[2]].starttime = Some(now')]
    /\ UNCHANGED <<broker, cli, context, active, loaded, oplog, modules, decl, runs, pc, solved, deps, sorter, ready, started,
                   futures, done, nfutures, result, exitcode, stderr, tls,
                   handles, used, error>>

\* the body returns or raises: it has read context.handle or not (Module.load
\* and Module.remove do, for their rpc; a task function may), runtask sets
\* endtime in its finally clause, the outcome is stored in the future and
\* the worker, counted idle, waits for the next item
BodyEnd(w, outcome, rpc) ==
    /\ thread[w].state = "running"
    /\ taskdb.obj[thread[w].item[2]].run # "remove"
    /\ rpc \/ taskdb.obj[thread[w].item[2]].run = "func"
    /\ LET item == thread[w].item IN
       /\ now' = now + 1
       /\ taskdb' = [taskdb EXCEPT !.obj[item[2]].endtime = Some(now')]
       /\ result' = [result EXCEPT ![item[1]].state = outcome]
       /\ thread' = [thread EXCEPT ![w] = [state |-> "waiting", item |-> 0]]
       /\ pool' = [pool EXCEPT !.idle = @ + 1]
       /\ IF rpc THEN SetHandles(context_handle(w, Handles))
                 ELSE UNCHANGED <<tls, handles, used>>
    /\ UNCHANGED <<broker, cli, context, active, loaded, oplog, modules, decl, runs, pc, solved, deps, sorter, ready, started,
                   futures, done, nfutures, exitcode, stderr, error>>

\* what the broker answers to module.remove: done, no such module (ENOENT,
\* raised by the binding as FileNotFoundError), or another error
Replies == {"ok", "ENOENT", "error"}

\* Module.remove that lets FileNotFoundError through
Module_remove_strict(reply) == IF reply = "ok" THEN "ok" ELSE "raise"

\* Module.remove: how the body ends for a reply; FileNotFoundError is
\* caught and ignored
Module_remove(reply) == IF reply \in {"ok", "ENOENT"} THEN "ok" ELSE "raise"

\* the module.list response once the module is no longer loaded
Unlisted(resp, name) == SelectSeq(resp, LAMBDA e : e.name # name)

\* the body of a module marked for removal ends: the broker has answered
\* the module.remove request (the request, its reply and the future are
\* recorded) and, unless it answered with an error other than ENOENT, no
\* longer lists the module; the rest is as in BodyEnd
ModuleRemoveEnd(w, reply) ==
    /\ thread[w].state = "running"
    /\ taskdb.obj[thread[w].item[2]].run = "remove"
    /\ LET item == thread[w].item
           name == taskdb.obj[item[2]].name
       IN /\ now' = now + 1
          /\ taskdb' = [taskdb EXCEPT !.obj[item[2]].endtime = Some(now')]
          /\ result' = [result EXCEPT ![item[1]].state = Module_remove(reply)]
          /\ thread' = [thread EXCEPT ![w] = [state |-> "waiting", item |-> 0]]
          /\ pool' = [pool EXCEPT !.idle = @ + 1]
          /\ SetHandles(context_handle(w, Handles))
          /\ loaded' = IF reply = "error" THEN loaded ELSE Unlisted(loaded, name)
          /\ oplog' = Append(oplog, <<"module.remove", name, reply, item[1]>>)
    /\ UNCHANGED <<broker, cli, context, active, modules, decl, runs, pc, solved, deps,
                   sorter, ready, started, futures, done, nfutures, exitcode,
                   stderr, error>>

\* a task is registered with one more entry in its before list: task i
\* declares before=[..., ref]
Declare(i, ref) ==
    /\ pc = "load"
    /\ decl = <<>>
    /\ taskdb' = [taskdb EXCEPT !.obj[i].before = Append(@, ref)]
    /\ decl' = <<i, ref>>
    /\ UNCHANGED <<broker, cli, context, active, loaded, oplog, modules, runs, pc, solved, deps, sorter, ready,
                   started, futures, done, nfutures, pool, thread, result,
                   exitcode, stderr, now, tls, handles, used, error>>

\* most calls a configuration script makes on the task database
MaxCalls == 4

\* what stays as it is while the task database is being configured
DBFrame ==
    UNCHANGED <<broker, cli, context, modules, active, loaded, decl, runs, solved, deps,
                sorter, ready, started, futures, done, nfutures, pool, thread,
                result, exitcode, stderr, now, tls, handles, used>>

\* Modprobe.add_task
AddTask(t) ==
    /\ pc = "db"
    /\ Len(oplog) < MaxCalls
    /\ taskdb' = TaskDB_add(taskdb, t)
    /\ oplog' = Append(oplog, <<"add", t.name, Len(taskdb.obj) + 1>>)
    /\ UNCHANGED <<pc, error>>
    /\ DBFrame

\* Context.set_alternative; the ValueError ends the script
SetAlternative(service, name) ==
    /\ pc = "db"
    /\ Len(oplog) < MaxCalls
    /\ LET r == TaskDB_set_alternative(taskdb, service, name) IN
       /\ taskdb' = r.db
       /\ oplog' = Append(oplog, <<"set_alternative", service, name, r.err>>)
       /\ IF r.err # "" THEN Raise(r.err) ELSE UNCHANGED <<pc, error>>
    /\ DBFrame

\* TaskDB.disable
Disable(service) ==
    /\ pc = "db"
    /\ Len(oplog) < MaxCalls
    /\ taskdb' = TaskDB_disable(taskdb, service)
    /\ oplog' = Append(oplog, <<"disable", service>>)
    /\ UNCHANGED <<pc, error>>
    /\ DBFrame

\* Modprobe.get_task called by the script; the call and the id of the task
\* it returned are recorded, 0 for the ValueError (caught as in has_task)
GetTask(k) ==
    /\ pc = "db"
    /\ Len(oplog) < MaxCalls
    /\ oplog' = Append(oplog, <<"get", k, get_task(taskdb, k)>>)
    /\ UNCHANGED <<taskdb, pc, error>>
    /\ DBFrame

\* Modprobe.remove up to its call of run: the plan, then set_remove on each
\* task of the plan
Remove ==
    /\ pc = "remove"
    /\ LET r == solve_modules_remove(taskdb, loaded, modules) IN
       /\ modules' = r.modules
       /\ IF r.err # ""
          THEN Raise(r.err) /\ UNCHANGED <<taskdb, solved, deps>>
          ELSE /\ taskdb' = set_remove_all(taskdb, SetToSeq(r.tasks))
               /\ solved' = r.tasks
               /\ deps' = r.deps
               /\ pc' = "run"
               /\ UNCHANGED error
    /\ oplog' = Append(oplog, <<"remove", modules>>)
    /\ UNCHANGED <<broker, cli, context, active, loaded, decl, runs, sorter, ready, started,
                   futures, done, nfutures, pool, thread, result, exitcode,
                   stderr, now, tls, handles, used>>

\* the caller reads Modprobe.active_tasks and will load what it returns
ActiveTasks ==
    /\ pc = "active"
    /\ LET r == active_tasks(taskdb, broker, active) IN
       /\ active' = r.active
       /\ IF r.err # ""
          THEN Raise(r.err) /\ UNCHANGED modules
          ELSE modules' = r.val /\ pc' = "load" /\ UNCHANGED error
    /\ oplog' = Append(oplog, <<"active_tasks", active>>)
    /\ UNCHANGED <<taskdb, broker, cli, context, loaded, decl, runs, solved, deps, sorter,
                   ready, started, futures, done, nfutures, pool, thread,
                   result, exitcode, stderr, now, tls, handles, used>>

\* after a removal that succeeded the caller makes the request of the first
\* call once more, with a fresh list of the same names
RemoveAgain ==
    /\ pc = "returned"
    /\ exitcode = 0
    /\ runs < MaxRuns
    /\ pc' = "remove"
    /\ modules' = oplog[1][2]
    /\ UNCHANGED <<taskdb, broker, cli, context, active, loaded, oplog, decl, runs, solved,
                   deps, sorter, ready, started, futures, done, nfutures, pool,
                   thread, result, exitcode, stderr, now, tls, handles, used,
                   error>>

\* the caller loads the modules again on the same Modprobe object
RunAgain ==
    /\ pc = "returned"
    /\ runs < MaxRuns
    /\ pc' = "load"
    /\ UNCHANGED <<taskdb, broker, cli, context, active, loaded, oplog, modules, decl, runs, solved, deps, sorter,
                   ready, started, futures, done, nfutures, pool, thread,
                   result, exitcode, stderr, now, tls, handles, used, error>>

Next ==
    \/ Load
    \/ Prepare
    \/ GetReady
    \/ Return
    \/ \E n \in ready, spawn \in BOOLEAN : Submit(n, spawn)
    \/ Wait
    \/ \E f \in done : ProcessDone(f)
    \/ \E w \in Workers : WorkerStart(w)
    \/ \E w \in Workers, outcome \in {"ok", "raise"}, rpc \in BOOLEAN :
          BodyEnd(w, outcome, rpc)

-----------------------------------------------------------------------------
(* The catalogues and the broker the executor is checked on *)

Broker0 == [rank |-> 0, attrs |-> <<>>, conf |-> <<>>]

\* tasks a, b and c (b and c are modules, c also provides "svc") with at
\* least one ordering declared among them
Catalogue3(ba, ab, ac) ==
    <<CodeTask("a", [before |-> ba]),
      Module([name |-> "b", after |-> ab]),
      Module([name |-> "c", provides |-> <<"svc">>, after |-> ac])>>

\* the same with a: before=["*"], and a fourth task d: after=["*"]
Catalogue4(ab, ac) ==
    Catalogue3(<<"*">>, ab, ac) \o <<CodeTask("d", [after |-> <<"*">>])>>

RunCatalogues ==
    {Catalogue3(x[1], x[2], x[3]) :
        x \in ({<<>>, <<"*">>, <<"svc">>}
               \X {<<>>, <<"a">>, <<"c">>, <<"*">>}
               \X {<<>>, <<"b">>, <<"a", "b">>})
              \ {<<<<>>, <<>>, <<>>>>}}
    \cup {Catalogue4(ab, ac) : ab \in {<<>>, <<"c">>}, ac \in {<<>>, <<"b">>}}

\* a Modprobe just constructed over one of the catalogues, all its modules
\* about to be loaded
Configured(catalogues) ==
    /\ \E cat \in catalogues :
          /\ taskdb = AddAll(EmptyDB, cat)
          /\ modules = [i \in 1..Len(cat) |-> cat[i].name]
    /\ broker = Broker0
    /\ pc = "load"
    /\ ModprobeInit
    /\ NoRun
    /\ NoCalls

Init == Configured(RunCatalogues)

Spec == Init /\ [][Next]_vars

\* a chain, a fork, a bracket and a cycle
LiveCatalogues ==
    {Catalogue3(<<>>, <<"a">>, <<"b">>),
     Catalogue3(<<"*">>, <<>>, <<>>),
     Catalogue3(<<>>, <<"c">>, <<"b">>),
     Catalogue4(<<>>, <<>>)}

\* a chain of aliases: a provides svc, b provides a, c provides b, and d
\* comes after a
ShadowChain ==
    <<Module([name |-> "a", provides |-> <<"svc">>]),
      Module([name |-> "b", provides |-> <<"a">>]),
      Module([name |-> "c", provides |-> <<"b">>]),
      CodeTask("d", [after |-> <<"a">>])>>

\* the chain is loaded through its aliases
ChainSeeds == <<"svc", "a", "b", "d">>

\* a Modprobe just constructed over catalogue cat, about to load seeds
Seeded(cat, seeds) ==
    /\ taskdb = AddAll(EmptyDB, cat)
    /\ modules = seeds
    /\ broker = Broker0
    /\ pc = "load"
    /\ ModprobeInit
    /\ NoRun
    /\ NoCalls

InitLive == Configured(LiveCatalogues) \/ Seeded(ShadowChain, ChainSeeds)

\* a step of the loop of run or of a thread of its pool
RunStep ==
    \/ GetReady
    \/ Return
    \/ \E n \in ready, spawn \in BOOLEAN : Submit(n, spawn)
    \/ Wait
    \/ \E f \in done : ProcessDone(f)
    \/ \E w \in Workers : WorkerStart(w)
    \/ \E w \in Workers, outcome \in {"ok", "raise"}, rpc \in BOOLEAN :
          BodyEnd(w, outcome, rpc)

\* the pool's threads and the main thread keep taking steps, and every body
\* ends: a step of the run that is possible is eventually taken
FairSpec == InitLive /\ [][Next]_vars /\ WF_vars(RunStep)

\* a chain of two modules
RerunCatalogues ==
    {<<Module([name |-> "b", before |-> <<"c">>]), Module([name |-> "c"])>>}

InitRerun == Configured(RerunCatalogues)

NextRerun == Next \/ RunAgain

\* the Modprobe object is used for up to MaxRuns loads
SpecRerun == InitRerun /\ [][NextRerun]_vars

-----------------------------------------------------------------------------
(* The catalogues, seeds and ranks the solver and get_deps are checked on *)

\* task a may provide svc, require b, svc or svc and the unknown x, and run on
\* the follower ranks only; task
\* b, registered after it, may provide a or svc, require c and be disabled;
\* task c may require a, svc or the unknown x, and be disabled
PlanCatalogues ==
    {<<CodeTask("a", [provides |-> pa, requires |-> ra, ranks |-> ka]),
       Module([name |-> "b", provides |-> pb, requires |-> rb, disabled |-> db]),
       Module([name |-> "c", requires |-> rc, disabled |-> dc])>> :
        pa \in {<<>>, <<"svc">>},
        ra \in {<<>>, <<"b">>, <<"svc">>, <<"svc", "x">>},
        ka \in {<<"all">>, <<">", 0>>},
        pb \in {<<>>, <<"a">>, <<"svc">>}, rb \in {<<>>, <<"c">>},
        db \in BOOLEAN, dc \in BOOLEAN,
        rc \in {<<>>, <<"a">>, <<"svc">>, <<"x">>}}

Seeds == {<<"a">>, <<"c">>, <<"svc">>, <<"svc", "c">>, <<"a", "b", "c">>}

Ranks == {0, 1}

InitPlan ==
    /\ \E cat \in PlanCatalogues : taskdb = AddAll(EmptyDB, cat)
    /\ modules \in Seeds
    /\ \E r \in Ranks : broker = [Broker0 EXCEPT !.rank = r]
    /\ pc = "load"
    /\ ModprobeInit
    /\ NoRun
    /\ NoCalls

NextPlan ==
    \/ \E i \in 1..Len(taskdb.obj), ref \in {"a", "b", "c", "svc"} : Declare(i, ref)
    \/ Load

\* the modules of the seed are solved and their predecessor map computed
SpecPlan == InitPlan /\ [][NextPlan]_vars

-----------------------------------------------------------------------------
(* The catalogues and seeds the orderings of get_deps are checked on *)

\* tasks a, b and c: each may declare before=["*"], a and c may declare
\* after=["*"]; a may provide svc; b may provide svc or a, come before c or
\* after a; c may come after svc or after a and b
OrderCatalogues ==
    {<<CodeTask("a", [provides |-> pa, before |-> ba, after |-> aa]),
       Module([name |-> "b", provides |-> pb, before |-> bb, after |-> ab]),
       Module([name |-> "c", before |-> bc, after |-> ac])>> :
        pa \in {<<>>, <<"svc">>},
        ba \in {<<>>, <<"*">>}, aa \in {<<>>, <<"*">>},
        pb \in {<<>>, <<"svc">>, <<"a">>},
        bb \in {<<>>, <<"*">>, <<"c">>}, ab \in {<<>>, <<"a">>},
        bc \in {<<>>, <<"*">>},
        ac \in {<<>>, <<"svc">>, <<"a", "b">>, <<"*">>}}

OrderSeeds ==
    {<<"a", "b", "c">>, <<"a", "c">>, <<"b", "c">>, <<"c">>, <<"svc", "b", "c">>}

InitOrder ==
    \E cat \in OrderCatalogues, seeds \in OrderSeeds : Seeded(cat, seeds)

\* Modprobe.load up to the prepare of run
NextOrder == Load \/ Prepare

SpecOrder == InitOrder /\ [][NextOrder]_vars

-----------------------------------------------------------------------------
(* The tasks and brokers Task.enabled is checked on *)

\* the rank expressions a task may carry: 'all', the id-sets '0' and '1-2',
\* '>1' and '<1'
RankExprs == {<<"all">>, <<"ids", {0}>>, <<"ids", {1, 2}>>, <<">", 1>>, <<"<", 1>>}

\* one task t, with or without a required configuration key and a
\* required attribute
EnabledCatalogues ==
    {<<CodeTask("a", [ranks |-> rk, disabled |-> dis,
                      requires_config |-> rc, requires_attrs |-> ra])>> :
        rk \in RankExprs, dis \in BOOLEAN,
        rc \in {<<>>, <<"key">>}, ra \in {<<>>, <<"attr">>}}

\* a table in which the key is absent, empty or set
Tables(key) == {<<>>} \cup {[k \in {key} |-> v] : v \in {"", "set"}}

\* a broker of three ranks
EnabledBrokers ==
    {[rank |-> r, conf |-> c, attrs |-> a] :
        r \in 0..2, c \in Tables("key"), a \in Tables("attr")}

InitEnabled ==
    /\ \E cat \in EnabledCatalogues : taskdb = AddAll(EmptyDB, cat)
    /\ modules = <<"a">>
    /\ broker \in EnabledBrokers
    /\ pc = "load"
    /\ ModprobeInit
    /\ NoRun
    /\ NoCalls

\* the task is loaded: solve keeps it if Task.enabled says so
SpecEnabled == InitEnabled /\ [][NextOrder]_vars

-----------------------------------------------------------------------------
(* The flux-modprobe command (src/cmd/flux-modprobe.py): its own Task and
   Modprobe classes, configured from modprobe.toml *)

\* a dict in insertion order: a list of <<key, value>> items
ItemKeys(d) == [i \in 1..Len(d) |-> d[i][1]]

ItemValues(d) == [i \in 1..Len(d) |-> d[i][2]]

HasItem(d, k) == \E i \in 1..Len(d) : d[i][1] = k

Item(d, k) == d[CHOOSE i \in 1..Len(d) : d[i][1] = k][2]

\* d[k] = v: a key already present keeps its position
SetItem(d, k, v) ==
    IF HasItem(d, k)
    THEN [i \in 1..Len(d) |-> IF d[i][1] = k THEN <<k, v>> ELSE d[i]]
    ELSE Append(d, <<k, v>>)

\* the runlevel None
AnyRunlevel == 0

\* Task.__init__ of the command; 'run' names the subclass body. starttime
\* and endtime are attributes only runtask assigns: None stands for an
\* attribute the object does not have yet
CliTask(details, runlevel, run) ==
    [name            |-> details.name,
     starttime       |-> None,
     endtime         |-> None,
     runlevel        |-> runlevel,
     ranks           |-> rank_conditional(Get(details, "ranks", <<"all">>)),
     depends         |-> Get(details, "depends", <<>>),
     after           |-> Get(details, "after", <<>>),
     requires_config |-> Get(details, "requires-config", <<>>),
     requires_attrs  |-> Get(details, "requires-attrs", <<>>),
     provides        |-> Get(details, "provides", <<>>),
     run             |-> run]

\* create_task: CodeTask, ShellTask, ModuleRemoveTask or ModuleLoadTask
create_task(details, remove, runlevel) ==
    IF "code" \in DOMAIN details THEN CliTask(details, runlevel, "code")
    ELSE IF "command" \in DOMAIN details THEN CliTask(details, runlevel, "command")
    ELSE IF remove THEN CliTask(details, AnyRunlevel, "remove")
    ELSE CliTask(details, AnyRunlevel, "load")

\* the loop of Modprobe.__init__ over conf["modules"]: a module that provides
\* services is appended to the alternatives of each, any other module is
\* stored under its name
RECURSIVE cli_add_provides(_, _, _)
cli_add_provides(alts, task, names) ==
    IF names = <<>> THEN alts
    ELSE LET n == Head(names)
             old == IF HasItem(alts, n) THEN Item(alts, n) ELSE <<>>
         IN cli_add_provides(SetItem(alts, n, Append(old, task)), task, Tail(names))

RECURSIVE cli_add_modules(_, _, _)
cli_add_modules(m, entries, remove) ==
    IF entries = <<>> THEN m
    ELSE LET task == create_task(Head(entries), remove, AnyRunlevel)
         IN cli_add_modules(
                IF task.provides # <<>>
                THEN [m EXCEPT !.alternatives =
                                   cli_add_provides(@, task, task.provides)]
                ELSE [m EXCEPT !.modules = SetItem(@, task.name, task)],
                Tail(entries), remove)

\* the dict comprehension of Modprobe.__init__ over conf["rc<i>"]["tasks"]
RECURSIVE cli_rc_tasks(_, _, _)
cli_rc_tasks(d, entries, runlevel) ==
    IF entries = <<>> THEN d
    ELSE cli_rc_tasks(SetItem(d, Head(entries).name,
                              create_task(Head(entries), FALSE, runlevel)),
                      Tail(entries), runlevel)

\* Modprobe.__init__ of the command; 'timing' tells whether
\* FLUX_MODPROBE_TIMING is in the environment
CliModprobe(conf, remove, rank, timing) ==
    LET m == cli_add_modules([modules |-> <<>>, alternatives |-> <<>>],
                             conf.modules, remove)
    IN [rank                 |-> rank,
        reverse_dependencies |-> remove,
        modules              |-> m.modules,
        alternatives         |-> m.alternatives,
        rc1                  |-> cli_rc_tasks(<<>>, conf.rc1, 1),
        rc3                  |-> cli_rc_tasks(<<>>, conf.rc3, 3),
        tasks                |-> <<>>,
        timing               |-> IF timing THEN Some(<<>>) ELSE None,
        started              |-> {},
        futures              |-> EmptyDict]

\* Task.check_runlevel
check_runlevel(task, runlevel) ==
    IF task.runlevel # AnyRunlevel
    THEN runlevel # AnyRunlevel /\ task.runlevel = runlevel
    ELSE TRUE

\* Task.check_conf
check_conf(task, ctx) ==
    \A i \in 1..Len(task.requires_config) : Truthy(ctx.conf, task.requires_config[i])

\* Task.check_attrs: attr_get raising FileNotFoundError is the only rejection
check_attrs(task, ctx) ==
    \A i \in 1..Len(task.requires_attrs) : task.requires_attrs[i] \in DOMAIN ctx.attrs

\* Modprobe._task_enabled
cli_task_enabled(m, task, ctx, runlevel) ==
    /\ rank_test(task.ranks, m.rank)
    /\ check_conf(task, ctx)
    /\ check_attrs(task, ctx)
    /\ check_runlevel(task, runlevel)

\* Modprobe.rc_tasks: the tasks of one runlevel, or for None the
\* ChainMap(rc1, rc3), which iterates the keys of rc3 and then the new keys
\* of rc1 and reads a key from rc1 first
RECURSIVE chain_update(_, _)
chain_update(d, items) ==
    IF items = <<>> THEN d
    ELSE chain_update(SetItem(d, Head(items)[1], Head(items)[2]), Tail(items))

rc_tasks(m, runlevel) ==
    IF runlevel = AnyRunlevel THEN chain_update(m.rc3, m.rc1)
    ELSE IF runlevel = 1 THEN m.rc1
    ELSE m.rc3

\* the first loop of solve_all: enabled tasks by name, the others skipped
RECURSIVE cli_select(_, _, _, _, _)
cli_select(m, ctx, runlevel, list, acc) ==
    IF list = <<>> THEN acc
    ELSE LET task == Head(list)
         IN cli_select(m, ctx, runlevel, Tail(list),
                IF cli_task_enabled(m, task, ctx, runlevel)
                THEN [acc EXCEPT !.tasks = SetItem(@, task.name, task)]
                ELSE [acc EXCEPT !.skipped = @ \cup {task.name}])

\* the first loop of _reverse_deps: every name gets an empty entry when it is
\* reached, and is added to the entry of each task it depends on
RECURSIVE reverse_edges(_, _)
reverse_edges(new_deps, items) ==
    IF items = <<>> THEN new_deps
    ELSE LET name == Head(items)[1]
             deplist == Head(items)[2]
             reset == Put(new_deps, name, {})
         IN reverse_edges(
                [x \in DOMAIN reset \cup deplist |->
                    IF x \in deplist
                    THEN (IF x \in DOMAIN reset THEN reset[x] ELSE {}) \cup {name}
                    ELSE reset[x]],
                Tail(items))

\* the runlevel 3 loop of _reverse_deps over the rc3 tasks
RECURSIVE teardown_edges(_, _, _, _)
teardown_edges(new_deps, depsets, all_modules, rc3) ==
    IF rc3 = <<>> THEN new_deps
    ELSE LET task == Head(rc3)
         IN teardown_edges(
                IF ~HasItem(depsets, task.name) THEN new_deps
                ELSE IF task.after # <<>>
                THEN Put(new_deps, task.name,
                         Get(new_deps, task.name, {})
                             \cup {x \in Range(task.after) : HasItem(depsets, x)})
                ELSE Put(new_deps, task.name,
                         Get(new_deps, task.name, {}) \cup all_modules),
                depsets, all_modules, Tail(rc3))

\* Modprobe._reverse_deps
cli_reverse_deps(m, depsets, tasks, runlevel) ==
    LET new_deps == reverse_edges(EmptyDict, depsets)
    IN IF runlevel = 3
       THEN teardown_edges(new_deps, depsets,
                           {x \in Range(ItemKeys(m.modules)) : HasItem(tasks, x)},
                           ItemValues(rc_tasks(m, 3)))
       ELSE new_deps

\* Modprobe.solve_all: the tasks and the predecessor sets of the runlevel, or
\* ValueError for a dependency that is not a task
solve_all(m, ctx, runlevel) ==
    LET alternatives == [i \in 1..Len(m.alternatives) |-> Last(m.alternatives[i][2])]
        sel == cli_select(m, ctx, runlevel,
                          ItemValues(m.modules) \o ItemValues(rc_tasks(m, AnyRunlevel))
                              \o alternatives,
                          [tasks |-> <<>>, skipped |-> {}])
        skipped == IF runlevel = 3
                   THEN sel.skipped \cup Range(ItemKeys(rc_tasks(m, 1)))
                   ELSE sel.skipped
        tasks == sel.tasks
        depsets == [i \in 1..Len(tasks) |->
                    <<tasks[i][1], {x \in Range(tasks[i][2].depends) : x \notin skipped}>>]
        popped == [i \in 1..Len(m.alternatives) |->
                      <<m.alternatives[i][1],
                        SubSeq(m.alternatives[i][2], 1, Len(m.alternatives[i][2]) - 1)>>]
    IN IF \E i \in 1..Len(depsets) : \E dep \in depsets[i][2] : ~HasItem(tasks, dep)
       THEN [error |-> "ValueError", tasks |-> <<>>, deps |-> EmptyDict,
             alternatives |-> popped]
       ELSE [error |-> "", tasks |-> tasks,
             deps |-> IF m.reverse_dependencies
                      THEN cli_reverse_deps(m, depsets, tasks, runlevel)
                      ELSE [n \in Range(ItemKeys(depsets)) |-> Item(depsets, n)],
             alternatives |-> popped]

\* the predecessor lists handed to TopologicalSorter
AsGraph(depsets) == [n \in DOMAIN depsets |-> SetToSeq(depsets[n])]

\* Modprobe.prep of the command for all tasks of a runlevel:
\* self.tasks, deps = self.solve(runlevel=...), then the sorter is prepared
CliPrep ==
    /\ pc = "cli"
    /\ LET r == solve_all(cli.object, broker, cli.runlevel)
       IN /\ cli' = [cli EXCEPT !.object.alternatives = r.alternatives,
                                !.object.tasks = IF r.error = "" THEN r.tasks ELSE @]
          /\ IF r.error # ""
             THEN Raise(r.error) /\ UNCHANGED <<solved, deps, sorter>>
             ELSE /\ solved' = Range(ItemKeys(r.tasks))
                  /\ deps' = AsGraph(r.deps)
                  /\ LET ts == TopologicalSorter(deps') IN
                     IF sorter_has_cycle(ts)
                     THEN Raise("CycleError") /\ UNCHANGED sorter
                     ELSE /\ sorter' = sorter_prepare(ts)
                          /\ pc' = "prepared"
                          /\ UNCHANGED error
    /\ UNCHANGED <<taskdb, broker, context, active, loaded, oplog, modules, decl, ready, done,
                   pool, started, futures, runs,
                   nfutures, thread, result, exitcode, stderr, now, tls,
                   handles, used>>

\* what stays as it is while the command runs its tasks
CliFrame ==
    UNCHANGED <<taskdb, broker, context, active, loaded, oplog, modules, decl, solved, deps,
                ready, done, pool, started, futures, runs, nfutures, thread,
                result, tls, handles, used>>

\* Modprobe.run of the command, one turn of the while loop up to the wait:
\* the ready tasks not yet started are submitted to the executor
CliSubmit ==
    /\ pc \in {"prepared", "cliloop"}
    /\ sorter_is_active(sorter)
    /\ sorter' = sorter_get_ready(sorter)
    /\ LET new == sorter.ready_nodes \ cli.object.started IN
       cli' = [cli EXCEPT !.object.started = @ \cup new,
                          !.object.futures =
                              [n \in DOMAIN @ \cup new |->
                                  IF n \in new THEN "pending" ELSE @[n]]]
    /\ pc' = "cliwait"
    /\ UNCHANGED <<exitcode, stderr, now, error>>
    /\ CliFrame

\* Task.runtask of the command, up to the body: starttime is assigned
CliTaskStart(n) ==
    /\ cli # NoCli
    /\ n \in DOMAIN cli.object.futures
    /\ cli.object.futures[n] = "pending"
    /\ now' = now + 1
    /\ cli' = [cli EXCEPT !.object.futures[n] = "running",
                          !.object.tasks =
                              SetItem(@, n, [Item(@, n) EXCEPT !.starttime = Some(now')])]
    /\ UNCHANGED <<pc, sorter, exitcode, stderr, error>>
    /\ CliFrame

\* Task.runtask of the command, from the body on: endtime is assigned after
\* self.run() has returned; an exception of the body leaves runtask before
CliTaskEnd(n, outcome) ==
    /\ cli # NoCli
    /\ n \in DOMAIN cli.object.futures
    /\ cli.object.futures[n] = "running"
    /\ now' = now + 1
    /\ cli' = [cli EXCEPT !.object.futures[n] = outcome,
                          !.object.tasks =
                              IF outcome = "ok"
                              THEN SetItem(@, n, [Item(@, n) EXCEPT !.endtime = Some(now')])
                              ELSE @]
    /\ UNCHANGED <<pc, sorter, exitcode, stderr, error>>
    /\ CliFrame

\* the loop 'for future in done' of the command over a set of completed futures
RECURSIVE cli_mark_done(_, _)
cli_mark_done(ts, names) ==
    IF names = {} THEN ts
    ELSE LET n == CHOOSE x \in names : TRUE
         IN cli_mark_done(sorter_done(ts, n), names \ {n})

\* Modprobe.run of the command, the rest of the turn: wait returns when a
\* future has completed; each completed task is reported if it raised, marked
\* done in the sorter and dropped from 'futures'
CliWait ==
    /\ pc = "cliwait"
    /\ LET fs == cli.object.futures
           finished == {n \in DOMAIN fs : fs[n] \in {"ok", "raise"}}
           failed == {n \in finished : fs[n] = "raise"}
       IN /\ finished # {}
          /\ stderr' = stderr \o SetToSeq(failed)
          /\ exitcode' = IF failed # {} THEN 1 ELSE exitcode
          /\ sorter' = cli_mark_done(sorter, finished)
          /\ cli' = [cli EXCEPT !.object.futures = [n \in DOMAIN fs \ finished |-> fs[n]]]
    /\ pc' = "cliloop"
    /\ UNCHANGED <<now, error>>
    /\ CliFrame

\* sorted(self.tasks.items(), key=starttime) as timing records
RECURSIVE cli_timing(_, _)
cli_timing(tasks, names) ==
    IF names = {} THEN <<>>
    ELSE LET n == CHOOSE x \in names :
                     \A y \in names : Item(tasks, x).starttime[1] <= Item(tasks, y).starttime[1]
             t == Item(tasks, n)
         IN <<[name |-> n, starttime |-> t.starttime[1],
               duration |-> t.endtime[1] - t.starttime[1]]>>
            \o cli_timing(tasks, names \ {n})

\* Modprobe.run of the command after the loop: with timing enabled, at
\* runlevel 1 on rank 0, a record per task is added from its starttime and
\* endtime and the records are committed to the KVS; run returns exitcode.
\* Reading an attribute that was never assigned raises AttributeError.
CliFinish ==
    /\ pc \in {"prepared", "cliloop"}
    /\ ~sorter_is_active(sorter)
    /\ LET names == Range(ItemKeys(cli.object.tasks)) IN
       IF cli.object.timing # None /\ cli.runlevel = 1 /\ cli.object.rank = 0
       THEN IF \E n \in names : Item(cli.object.tasks, n).starttime = None
                                   \/ Item(cli.object.tasks, n).endtime = None
            THEN Raise("AttributeError") /\ UNCHANGED cli
            ELSE /\ cli' = [cli EXCEPT !.object.timing =
                                Some(@[1] \o cli_timing(cli.object.tasks, names))]
                 /\ pc' = "returned"
                 /\ UNCHANGED error
       ELSE pc' = "returned" /\ UNCHANGED <<cli, error>>
    /\ UNCHANGED <<sorter, exitcode, stderr, now>>
    /\ CliFrame

\* modprobe.toml files: modules a and b in either order, a may depend on b
\* and b may provide svc; an rc1 task s and an rc3 task t
CliEntries(da, pb, dt, at, ds) ==
    [a |-> [name |-> "a", depends |-> da],
     b |-> [name |-> "b", provides |-> pb],
     t |-> [name |-> "t", code |-> "pass", depends |-> dt, after |-> at],
     s |-> [name |-> "s", code |-> "pass", depends |-> ds]]

CliConfs ==
    {[modules |-> IF first THEN <<e.a, e.b>> ELSE <<e.b, e.a>>,
      rc1     |-> <<e.s>>,
      rc3     |-> <<e.t>>] :
        first \in BOOLEAN,
        e \in {CliEntries(da, pb, dt, at, ds) :
                  da \in {<<>>, <<"b">>},
                  pb \in {<<>>, <<"svc">>},
                  dt \in {<<>>, <<"a">>},
                  at \in {<<>>, <<"a">>, <<"a", "zz">>},
                  ds \in {<<>>, <<"a">>}}}

\* rc1 is Modprobe().run(runlevel=1), rc3 is Modprobe(remove=True).run(runlevel=3);
\* a Modprobe made for listing solves runlevel 3 in load order
CliCalls == {[remove |-> FALSE, runlevel |-> 1],
             [remove |-> TRUE,  runlevel |-> 3],
             [remove |-> FALSE, runlevel |-> 3]}

InitCli ==
    /\ \E conf \in CliConfs, call \in CliCalls, timing \in BOOLEAN :
          cli = [conf     |-> conf,
                 object   |-> CliModprobe(conf, call.remove, Broker0.rank, timing),
                 runlevel |-> call.runlevel]
    /\ broker = Broker0
    /\ context = NewContext
    /\ taskdb = EmptyDB
    /\ modules = <<>>
    /\ pc = "cli"
    /\ exitcode = 0
    /\ LET h == context_handle(MainThread,
                   [tls |-> [t \in {MainThread} \cup Workers |-> 0],
                    handles |-> <<>>, used |-> {}])
       IN tls = h.tls /\ handles = h.handles /\ used = h.used
    /\ NoRun
    /\ NoCalls

NextCli ==
    \/ CliPrep
    \/ CliSubmit
    \/ \E n \in {"a", "b", "s", "t"} : CliTaskStart(n)
    \/ \E n \in {"a", "b", "s", "t"}, outcome \in {"ok", "raise"} : CliTaskEnd(n, outcome)
    \/ CliWait
    \/ CliFinish

SpecCli == InitCli /\ [][NextCli]_vars

-----------------------------------------------------------------------------
(* etc/rc1.py: the tasks that restore content on rank 0, and setup *)

\* @task("check-restore", ...)
check_restore ==
    CodeTask("check-restore",
             [ranks          |-> <<"ids", {0}>>,
              before         |-> <<"content-backing">>,
              needs          |-> <<"content-backing">>,
              requires_attrs |-> <<"content.restore">>])

\* @task("restore", ...)
restore ==
    CodeTask("restore",
             [ranks          |-> <<"ids", {0}>>,
              before         |-> <<"kvs">>,
              after          |-> <<"content-backing", "check-restore">>,
              requires       |-> <<"check-restore", "content-backing", "kvs">>,
              needs          |-> <<"content-backing", "check-restore">>,
              requires_attrs |-> <<"content.restore">>])

\* Modprobe._load_file up to setup: the tasks of the file are registered and
\* activated in the order the file defines them
RECURSIVE load_file(_, _)
load_file(st, tasks) ==
    IF tasks = <<>> THEN st
    ELSE load_file([db     |-> TaskDB_add(st.db, Head(tasks)),
                    active |-> Append(st.active, Head(tasks).name)],
                   Tail(tasks))

\* Modprobe.activate_modules: [err, active]
RECURSIVE activate_modules(_, _, _)
activate_modules(db, act, names) ==
    IF names = <<>> THEN [err |-> "", active |-> act]
    ELSE IF get_task(db, Head(names)) = 0
            \/ db.obj[get_task(db, Head(names))].run = "func"
    THEN [err |-> "ValueError", active |-> act]
    ELSE activate_modules(db, Append(act, Head(names)), Tail(names))

\* setup(context) of rc1.py, for the modules of 'names' among those it
\* loads: the provider named by the attribute content.backing-module is
\* selected for content-backing ("none" disables the service), then the
\* modules are activated; [err, db, active]
rc1_setup(st, ctx, names) ==
    LET backing == IF "content.backing-module" \in DOMAIN ctx.attrs
                   THEN Some(ctx.attrs["content.backing-module"]) ELSE None
        sel == IF backing = None THEN [err |-> "", db |-> st.db]
               ELSE TaskDB_set_alternative(st.db, "content-backing",
                        IF backing = Some("none") THEN None ELSE backing)
        act == activate_modules(sel.db, st.active, names)
    IN IF sel.err # "" THEN [err |-> sel.err, db |-> st.db, active |-> st.active]
       ELSE [err |-> act.err, db |-> sel.db, active |-> act.active]

\* the future, the worker and the pool when the body a worker runs has ended
\* with 'outcome': runtask sets endtime in its finally clause
EndBody(w, outcome) ==
    LET item == thread[w].item IN
    /\ now' = now + 1
    /\ taskdb' = [taskdb EXCEPT !.obj[item[2]].endtime = Some(now')]
    /\ result' = [result EXCEPT ![item[1]].state = outcome]
    /\ thread' = [thread EXCEPT ![w] = [state |-> "waiting", item |-> 0]]
    /\ pool' = [pool EXCEPT !.idle = @ + 1]

\* the worker runs the body of the task of this name
Runs(w, name) ==
    /\ thread[w].state = "running"
    /\ taskdb.obj[thread[w].item[2]].name = name
    /\ taskdb.obj[thread[w].item[2]].run = "func"

\* the body of check-restore ends. dumpfile is the attribute content.restore;
\* for "auto" it is the target of the symlink dump/RESTORE when that exists
\* ('link') and None otherwise. Path(dumpfile) raises TypeError for None;
\* otherwise dumpfile and dumplink are stored in the context and, a Path
\* being true, the option truncate is set on content-backing
CheckRestoreEnd(w, link) ==
    /\ Runs(w, "check-restore")
    /\ LET attr == IF "content.restore" \in DOMAIN broker.attrs
                   THEN Some(broker.attrs["content.restore"]) ELSE None
           dumpfile == IF attr = Some("auto")
                       THEN (IF link THEN Some("RESTORE.target") ELSE None)
                       ELSE attr
           dumplink == IF attr = Some("auto") /\ link THEN Some("RESTORE") ELSE None
       IN IF dumpfile = None
          THEN EndBody(w, "raise") /\ UNCHANGED context
          ELSE /\ EndBody(w, "ok")
               /\ context' =
                     [data |-> Put(Put(context.data, "dumpfile", dumpfile),
                                   "dumplink", dumplink),
                      module_args |->
                          Put(context.module_args, "content-backing",
                              Append(Get(context.module_args, "content-backing", <<>>),
                                     "truncate"))]
    /\ SetHandles(context_handle(w, Handles))
    /\ UNCHANGED <<broker, cli, active, loaded, oplog, modules, decl, runs, pc,
                   solved, deps, sorter, ready, started, futures, done,
                   nfutures, exitcode, stderr, error>>

\* the body of restore ends: it returns at once without a dumpfile in the
\* context; otherwise it runs flux restore when the file exists, and unlinks
\* the dumplink, which may fail
RestoreEnd(w, exists, outcome) ==
    /\ Runs(w, "restore")
    /\ LET dumpfile == Get(context.data, "dumpfile", None) IN
       IF dumpfile = None
       THEN /\ exists /\ outcome = "ok"
            /\ EndBody(w, "ok")
            /\ UNCHANGED oplog
       ELSE /\ EndBody(w, outcome)
            /\ oplog' = IF exists
                        THEN Append(oplog, <<"bash", "flux restore", dumpfile[1]>>)
                        ELSE oplog
    /\ UNCHANGED <<broker, cli, context, active, loaded, modules, decl, runs, pc,
                   solved, deps, sorter, ready, started, futures, done,
                   nfutures, exitcode, stderr, tls, handles, used, error>>

\* the body of a module ends
ModuleLoadEnd(w, outcome) ==
    /\ thread[w].state = "running"
    /\ taskdb.obj[thread[w].item[2]].run = "load"
    /\ BodyEnd(w, outcome, TRUE)

\* module catalogues (modules.toml): content-sqlite provides content-backing,
\* content-files may do so too, registered before or after it; kvs may be
\* declared after content-backing and may require it
ContentFiles == Module([name |-> "content-files", provides |-> <<"content-backing">>])

Rc1Modules ==
    {x[1] \o <<Module([name |-> "content-sqlite", provides |-> <<"content-backing">>])>>
          \o x[2]
          \o <<Module([name |-> "kvs", after |-> ak, requires |-> rk])>> :
        x \in {<<<<>>, <<>>>>, <<<<ContentFiles>>, <<>>>>, <<<<>>, <<ContentFiles>>>>},
        ak \in {<<>>, <<"content-backing">>},
        rk \in {<<>>, <<"content-backing">>}}

\* broker attributes: nothing, or one key with one of the values
AttrTables(key, values) == {<<>>} \cup {[k \in {key} |-> v] : v \in values}

Merge(f, g) == [k \in DOMAIN f \cup DOMAIN g |-> IF k \in DOMAIN g THEN g[k] ELSE f[k]]

\* brokers of rc1: rank 0 or 1, content.restore unset, empty, "auto" or a
\* file, content.backing-module unset, "none" or a module
Rc1Brokers ==
    {[rank |-> r, conf |-> <<>>, attrs |-> Merge(a, b)] :
        r \in {0, 1},
        a \in AttrTables("content.restore", {"", "auto", "dump.tgz"}),
        b \in AttrTables("content.backing-module",
                         {"none", "content-sqlite", "content-files"})}

\* rc1: the module catalogue is registered, rc1.py is loaded and its setup
\* has run without error; the active tasks are about to be read and loaded
InitRc1 ==
    /\ \E cat \in Rc1Modules, b \in Rc1Brokers :
          LET st == load_file([db |-> AddAll(EmptyDB, cat), active |-> <<>>],
                              <<check_restore, restore>>)
              r == rc1_setup(st, b, <<"content-backing", "kvs">>)
          IN /\ r.err = ""
             /\ taskdb = r.db
             /\ active = r.active
             /\ broker = b
    /\ modules = <<>>
    /\ pc = "active"
    /\ ModprobeInit
    /\ NoRun
    /\ loaded = <<>>
    /\ oplog = <<>>

NextRc1 ==
    \/ ActiveTasks
    \/ Load
    \/ Prepare
    \/ GetReady
    \/ Return
    \/ \E n \in ready, spawn \in BOOLEAN : Submit(n, spawn)
    \/ Wait
    \/ \E f \in done : ProcessDone(f)
    \/ \E w \in Workers : WorkerStart(w)
    \/ \E w \in Workers, outcome \in {"ok", "raise"} : ModuleLoadEnd(w, outcome)
    \/ \E w \in Workers, link \in BOOLEAN : CheckRestoreEnd(w, link)
    \/ \E w \in Workers, exists \in BOOLEAN, outcome \in {"ok", "raise"} :
          RestoreEnd(w, exists, outcome)

\* rc1 on a broker: the active tasks are pruned, solved and run
SpecRc1 == InitRc1 /\ [][NextRc1]_vars

-----------------------------------------------------------------------------
(* The calls a configuration script makes on the task database *)

\* modules a and b, each with no alias, the alias svc or the alias a
DBTasks ==
    {Module([name |-> n, provides |-> p]) :
        n \in {"a", "b"}, p \in {<<>>, <<"svc">>, <<"a">>}}

\* the services the script selects, disables and looks up
DBServices == {"a", "b", "svc"}

InitDB ==
    /\ taskdb = EmptyDB
    /\ modules = <<>>
    /\ broker = Broker0
    /\ pc = "db"
    /\ ModprobeInit
    /\ NoRun
    /\ NoCalls

NextDB ==
    \/ \E t \in DBTasks : AddTask(t)
    \/ \E service \in DBServices, name \in {Some("a"), Some("b"), None} :
          SetAlternative(service, name)
    \/ \E service \in DBServices : Disable(service)
    \/ \E k \in DBServices : GetTask(k)

\* any script of at most MaxCalls calls on an empty task database
SpecDB == InitDB /\ [][NextDB]_vars

-----------------------------------------------------------------------------
(* The catalogues, loaded modules and requests removal is checked on *)

\* modules a, b and c: b may provide svc and come after a, c may come after
\* a, b or svc
RemoveCatalogues ==
    {<<Module([name |-> "a"]),
       Module([name |-> "b", provides |-> pb, after |-> ab]),
       Module([name |-> "c", after |-> ac])>> :
        pb \in {<<>>, <<"svc">>}, ab \in {<<>>, <<"a">>},
        ac \in {<<>>, <<"a">>, <<"b">>, <<"svc">>}}

\* the entry of the module.list response for a loaded module: the broker
\* registers the module's own name as a service next to its aliases
ListEntry(t) == [name |-> t.name, services |-> <<t.name>> \o t.provides]

\* the modules of the catalogue that are loaded
LoadedSets == {{"a", "b", "c"}, {"a", "b"}, {"b", "c"}}

Requests ==
    {<<>>, <<"a">>, <<"b">>, <<"c">>, <<"svc">>, <<"a", "b">>, <<"a", "c">>,
     <<"x">>}

InitRemove ==
    /\ \E cat \in RemoveCatalogues, up \in LoadedSets :
          /\ taskdb = AddAll(EmptyDB, cat)
          /\ loaded = [i \in 1..Cardinality(up) |->
                         ListEntry(SelectSeq(cat, LAMBDA t : t.name \in up)[i])]
    /\ modules \in Requests
    /\ broker = Broker0
    /\ pc = "remove"
    /\ ModprobeInit
    /\ NoRun
    /\ active = <<>>
    /\ oplog = <<>>

\* a step of run while modules are being removed; the broker answers each
\* module.remove with success or with an error
RemoveStep ==
    \/ GetReady
    \/ Return
    \/ \E n \in ready, spawn \in BOOLEAN : Submit(n, spawn)
    \/ Wait
    \/ \E f \in done : ProcessDone(f)
    \/ \E w \in Workers : WorkerStart(w)
    \/ \E w \in Workers, reply \in {"ok", "error"} : ModuleRemoveEnd(w, reply)

NextRemove == Remove \/ Prepare \/ RemoveStep

\* Modprobe.remove on a broker with some of the modules loaded
SpecRemove == InitRemove /\ [][NextRemove]_vars

-----------------------------------------------------------------------------
(* Teardown of a chain of three loaded modules *)

\* a stands for content-backing, b for content and c for kvs; each module
\* depends on the one before it, declared through requires or through after
RequiresChain ==
    <<Module([name |-> "a"]),
      Module([name |-> "b", requires |-> <<"a">>]),
      Module([name |-> "c", requires |-> <<"b">>])>>

AfterChain ==
    <<Module([name |-> "a"]),
      Module([name |-> "b", after |-> <<"a">>]),
      Module([name |-> "c", after |-> <<"b">>])>>

\* the requests made on each chain: remove everything (an empty list), the
\* bottom of the chain, its top
TeardownCases ==
    {<<RequiresChain, <<"a">>>>, <<RequiresChain, <<"c">>>>,
     <<AfterChain, <<>>>>, <<AfterChain, <<"a">>>>, <<AfterChain, <<"c">>>>}

InitTeardown ==
    /\ \E case \in TeardownCases :
          /\ taskdb = AddAll(EmptyDB, case[1])
          /\ loaded = [i \in 1..Len(case[1]) |-> ListEntry(case[1][i])]
          /\ modules = case[2]
    /\ broker = Broker0
    /\ pc = "remove"
    /\ ModprobeInit
    /\ NoRun
    /\ active = <<>>
    /\ oplog = <<>>

\* a step of run during teardown; the broker may also answer that the
\* module is not there any more
TeardownStep ==
    \/ GetReady
    \/ Return
    \/ \E n \in ready, spawn \in BOOLEAN : Submit(n, spawn)
    \/ Wait
    \/ \E f \in done : ProcessDone(f)
    \/ \E w \in Workers : WorkerStart(w)
    \/ \E w \in Workers, reply \in Replies : ModuleRemoveEnd(w, reply)

NextTeardown == Remove \/ Prepare \/ TeardownStep \/ RemoveAgain

\* Modprobe.remove, up to MaxRuns times, on a broker with the chain loaded
SpecTeardown == InitTeardown /\ [][NextTeardown]_vars

-----------------------------------------------------------------------------
(* The catalogues and active lists the needs are checked on *)

\* module a may need b, svc or x, a service nobody provides; module b may
\* provide svc, need x, require a and run on the follower ranks only
NeedsCatalogues ==
    {<<Module([name |-> "a", needs |-> na]),
       Module([name |-> "b", provides |-> pb, needs |-> nb, requires |-> rb,
               ranks |-> kb])>> :
        na \in {<<>>, <<"b">>, <<"svc">>, <<"x">>},
        pb \in {<<>>, <<"svc">>}, nb \in {<<>>, <<"x">>},
        rb \in {<<>>, <<"a">>}, kb \in {<<"all">>, <<">", 0>>}}

ActiveLists == {<<"a", "b">>, <<"b", "a">>, <<"b">>}

\* the caller either activates the list and loads Modprobe.active_tasks, or
\* hands the list to Modprobe.load directly
InitNeeds ==
    /\ \E cat \in NeedsCatalogues : taskdb = AddAll(EmptyDB, cat)
    /\ \E lst \in ActiveLists :
          \/ pc = "active" /\ active = lst /\ modules = <<>>
          \/ pc = "load" /\ active = <<>> /\ modules = lst
    /\ \E r \in Ranks : broker = [Broker0 EXCEPT !.rank = r]
    /\ ModprobeInit
    /\ NoRun
    /\ loaded = <<>>
    /\ oplog = <<>>

NextNeeds == ActiveTasks \/ Next

\* the active tasks are pruned by their needs, solved and run
SpecNeeds == InitNeeds /\ [][NextNeeds]_vars

-----------------------------------------------------------------------------
(* etc/rc3.py and Modprobe.set_remove *)

\* @task("post-finish-event", ...)
post_finish_event ==
    CodeTask("post-finish-event", [ranks |-> <<"ids", {0}>>, before |-> <<"kvs">>])

\* @task("content-dump", ...)
content_dump ==
    CodeTask("content-dump",
             [ranks          |-> <<"ids", {0}>>,
              after          |-> <<"content-flush">>,
              before         |-> <<"content-backing">>,
              requires_attrs |-> <<"content.dump">>])

\* @task("content-flush", ...)
content_flush ==
    CodeTask("content-flush",
             [ranks  |-> <<"ids", {0}>>,
              after  |-> <<"kvs">>,
              before |-> <<"content-dump", "content-backing">>,
              needs  |-> <<"content-backing">>])

\* the loop of Modprobe.set_remove: the task a name resolves to is marked
\* for removal, added to the task database once more and activated;
\* [err, db, active]
RECURSIVE set_remove_loop(_, _)
set_remove_loop(st, names) ==
    IF names = <<>> \/ st.err # "" THEN st
    ELSE LET id == get_task(st.db, Head(names)) IN
         IF id = 0 THEN [st EXCEPT !.err = "ValueError"]
         ELSE LET t == set_remove(st.db.obj[id]) IN
              set_remove_loop(
                  [err    |-> "",
                   db     |-> [tasks |-> AppendUnder(st.db.tasks,
                                                     Append(t.provides, t.name), id),
                               obj   |-> [st.db.obj EXCEPT ![id] = t]],
                   active |-> Append(st.active, t.name)],
                  Tail(names))

\* Modprobe.set_remove: modules_ is None, for all loaded modules that have a
\* task, or Some(list of names)
Modprobe_set_remove(db, act, resp, modules_) ==
    set_remove_loop([err |-> "", db |-> db, active |-> act],
                    IF modules_ = None
                    THEN SelectSeq(loaded_modules(resp), LAMBDA x : has_task(db, x))
                    ELSE modules_[1])

\* Context.remove_modules(modules): the caller marks modules for removal
SetRemove ==
    /\ pc = "set_remove"
    /\ LET r == Modprobe_set_remove(taskdb, active, loaded, modules) IN
       /\ taskdb' = r.db
       /\ active' = r.active
       /\ IF r.err # "" THEN Raise(r.err)
          ELSE pc' = "active" /\ UNCHANGED error
    /\ oplog' = Append(oplog, <<"set_remove", modules>>)
    /\ UNCHANGED <<broker, cli, context, loaded, modules, decl, runs, solved, deps,
                   sorter, ready, started, futures, done, nfutures, pool, thread,
                   result, exitcode, stderr, now, tls, handles, used>>

\* the modules the broker has loaded at shutdown
Rc3Loaded == {<<"content-sqlite", "kvs">>, <<"content-files", "kvs">>, <<"kvs">>}

\* the module catalogues of rc3: content-files may be registered after
\* content-sqlite, kvs requires content-backing and may be declared after it
Rc3Modules ==
    {<<Module([name |-> "content-sqlite", provides |-> <<"content-backing">>])>>
          \o files
          \o <<Module([name |-> "kvs", after |-> ak,
                       requires |-> <<"content-backing">>])>> :
        files \in {<<>>, <<ContentFiles>>},
        ak \in {<<>>, <<"content-backing">>}}

\* what the caller asks to remove: all loaded modules, or modules by name,
\* one of them twice or by its name and by the service it provides
Rc3Requests ==
    {None, Some(<<"kvs", "kvs">>), Some(<<"content-sqlite", "content-backing">>),
     Some(<<"x">>)}

\* brokers of rc3: rank 0 with content.dump unset or "auto", and rank 1
Rc3Brokers ==
    {[rank |-> 0, conf |-> <<>>, attrs |-> a] : a \in AttrTables("content.dump", {"auto"})}
    \cup {[rank |-> 1, conf |-> <<>>, attrs |-> <<>>]}

\* the body of a task of rc3.py ends: content-dump reads a broker attribute
\* and content-flush sends an rpc, both through context.handle;
\* post-finish-event only runs a command
Rc3BodyEnd(w, outcome) ==
    /\ thread[w].state = "running"
    /\ BodyEnd(w, outcome, taskdb.obj[thread[w].item[2]].name # "post-finish-event")

\* rc3: the module catalogue is registered and rc3.py is loaded; the modules
\* are about to be marked for removal
InitRc3 ==
    /\ \E cat \in Rc3Modules, up \in Rc3Loaded :
          LET st == load_file([db |-> AddAll(EmptyDB, cat), active |-> <<>>],
                              <<post_finish_event, content_dump, content_flush>>)
          IN /\ \A i \in 1..Len(up) : has_task(st.db, up[i])
             /\ taskdb = st.db
             /\ active = st.active
             /\ loaded = [i \in 1..Len(up) |->
                            ListEntry(st.db.obj[get_task(st.db, up[i])])]
    /\ modules \in Rc3Requests
    /\ broker \in Rc3Brokers
    /\ pc = "set_remove"
    /\ ModprobeInit
    /\ NoRun
    /\ oplog = <<>>

NextRc3 ==
    \/ SetRemove
    \/ ActiveTasks
    \/ Load
    \/ Prepare
    \/ GetReady
    \/ Return
    \/ \E n \in ready, spawn \in BOOLEAN : Submit(n, spawn)
    \/ Wait
    \/ \E f \in done : ProcessDone(f)
    \/ \E w \in Workers : WorkerStart(w)
    \/ \E w \in Workers, outcome \in {"ok", "raise"} : Rc3BodyEnd(w, outcome)
    \/ \E w \in Workers, reply \in {"ok", "error"} : ModuleRemoveEnd(w, reply)

\* rc3 on a broker: modules are marked for removal, the active tasks are
\* pruned, solved and run
SpecRc3 == InitRc3 /\ [][NextRc3]_vars

-----------------------------------------------------------------------------
(* Properties of the executor *)

\* the task that name n resolves to
TaskNamed(n) == taskdb.obj[get_task(taskdb, n)]

Started(n) == TaskNamed(n).starttime # None

Ended(n) == TaskNamed(n).endtime # None

\* the edges (p, s) of the predecessor map: p is in deps[s]
Edges == {<<p, s>> \in Nodes(deps) \X DOMAIN deps : p \in Range(deps[s])}

Processed(n) ==
    /\ n \in DOMAIN started
    /\ \A f \in DOMAIN futures : taskdb.obj[futures[f]].name # n

\* the task named n raised
Failed(n) ==
    \E f \in 1..nfutures :
        taskdb.obj[result[f].task].name = n /\ result[f].state = "raise"

\* C2: a failure cancels nothing. Once every predecessor of a task has been
\* handled, failed or not, the task is ready or has been passed out; a handled
\* failure makes the exit code non-zero; when run returns every task of the
\* map has started and finished, after its failed predecessors finished.
C2_BestEffort ==
    /\ pc \in {"loop", "submit", "wait", "done", "returned"} =>
          \A n \in DOMAIN sorter.npred :
              (\A p \in Range(Preds(deps, n)) : Processed(p)) => sorter.npred[n] <= 0
    /\ \A n \in DOMAIN started : Failed(n) /\ Processed(n) => exitcode # 0
    /\ pc = "returned" =>
          /\ \A n \in Nodes(deps) : Started(n) /\ Ended(n)
          /\ \A e \in Edges :
                Failed(e[1]) =>
                    TaskNamed(e[2]).starttime[1] >= TaskNamed(e[1]).endtime[1]

\* a task ran after a predecessor of it had failed
C2_Witness ==
    /\ pc = "returned"
    /\ \E e \in Edges : e[1] # e[2] /\ Failed(e[1]) /\ Ended(e[2])

\* the executions submitted by runs in rs
Executions(rs) == {f \in 1..nfutures : result[f].run \in rs}

AllSucceeded(rs) == \A f \in Executions(rs) : result[f].state = "ok"

\* the lines of stderr that report the task named n
Reports(n) == Cardinality({i \in 1..Len(stderr) : stderr[i] = n})

\* the executions of the task named n that raised
Failures(n) ==
    Cardinality({f \in 1..nfutures :
                    taskdb.obj[result[f].task].name = n /\ result[f].state = "raise"})

\* C3 as stated: the exit code run returns is 0 exactly when every task
\* executed in that run succeeded
C3_ExitCodeOfThisRun ==
    pc = "returned" => (exitcode = 0 <=> AllSucceeded({runs}))

\* C3: the exit code run returns is 0 exactly when every task executed by
\* any run of this Modprobe object so far succeeded, and 1 otherwise; every
\* failed execution is reported by exactly one line naming the task
C3_ExitCode ==
    pc = "returned" =>
        /\ exitcode = (IF AllSucceeded(1..runs) THEN 0 ELSE 1)
        /\ \A n \in DOMAIN deps : Reports(n) = Failures(n)

\* a second run whose tasks all succeeded returns after a first run in which
\* one failed
C3_Witness ==
    /\ pc = "returned"
    /\ runs = 2
    /\ AllSucceeded({2})
    /\ ~AllSucceeded({1})

\* C4: once prepare has accepted the map, run returns, and then every task
\* named in the map has been started and has completed
C4_Termination ==
    (pc = "loop") ~> (pc = "returned" /\ \A n \in Nodes(deps) : Started(n) /\ Ended(n))

\* every name of the map is the name of the task it resolves to
CanonicalMap == \A n \in Nodes(deps) : has_task(taskdb, n) /\ TaskNamed(n).name = n

\* the same for the maps whose names are all canonical
C4_TerminationCanonical ==
    (pc = "loop" /\ CanonicalMap) ~>
        (pc = "returned" /\ \A n \in Nodes(deps) : Started(n) /\ Ended(n))

\* a run over a map of four tasks has returned
C4_Witness == pc = "returned" /\ Cardinality(DOMAIN deps) = 4 /\ nfutures = 4

\* C5: when the map has a cycle, run ends in prepare with a cycle error and
\* no task has been submitted or started
C5_CycleRejected ==
    sorter_has_cycle(TopologicalSorter(deps)) =>
        /\ pc \in {"run", "raised"}
        /\ pc = "raised" => error = "CycleError"
        /\ nfutures = 0
        /\ \A i \in 1..Len(taskdb.obj) : taskdb.obj[i].starttime = None

\* prepare has raised the cycle error
C5_Witness == pc = "raised" /\ error = "CycleError" /\ runs = 1

\* the bracket: a declares before=["*"], d declares after=["*"], and b and c
\* declare nothing
Bracket ==
    /\ Len(taskdb.obj) = 4
    /\ taskdb.obj[1].before = <<"*">>
    /\ taskdb.obj[4].after = <<"*">>
    /\ taskdb.obj[2].after = <<>>
    /\ taskdb.obj[3].after = <<>>

Precedes(p, s) ==
    Started(s) => Ended(p) /\ TaskNamed(p).endtime[1] <= TaskNamed(s).starttime[1]

\* C6: in the bracket the map has no cycle, a completes before b, c and d
\* start, and b and c complete before d starts
C6_WildcardBracket ==
    Bracket /\ pc # "load" =>
        /\ ~sorter_has_cycle(TopologicalSorter(deps))
        /\ DOMAIN deps = {"a", "b", "c", "d"}
        /\ \A s \in {"b", "c", "d"} : Precedes("a", s)
        /\ \A p \in {"b", "c"} : Precedes(p, "d")

\* the bracket has been run to the end
C6_Witness == Bracket /\ pc = "returned" /\ Started("d")

\* the worker threads waiting for a work item
Waiting == {w \in Workers : thread[w].state = "waiting"}

Running == {w \in Workers : thread[w].state = "running"}

\* there is a path from p to s in the predecessor map
RECURSIVE Ancestors(_, _)
Ancestors(n, seen) ==
    LET new == Range(Preds(deps, n)) \ seen
    IN new \cup UNION {Ancestors(m, seen \cup new) : m \in new}

Unordered(p, q) ==
    p # q /\ p \notin Ancestors(q, {}) /\ q \notin Ancestors(p, {})

\* C8: a submitted task never waits for a worker while another task runs:
\* there is a waiting worker for every queued work item, so two tasks with
\* no ordering path between them can run at the same time
C8_Parallelism == Cardinality(Waiting) >= Len(pool.queue)

\* two tasks with no ordering path between them are running together
C8_Witness ==
    \E v \in Running, w \in Running :
        Unordered(taskdb.obj[thread[v].item[2]].name,
                  taskdb.obj[thread[w].item[2]].name)

\* C9: every handle is used only by the thread that created it, no thread
\* creates two, and a thread has a handle only once it has used one
C9_HandlePerThread ==
    /\ \A u \in used : handles[u[1]] = u[2]
    /\ \A i, j \in 1..Len(handles) : handles[i] = handles[j] => i = j
    /\ \A t \in DOMAIN tls :
          tls[t] # 0 => handles[tls[t]] = t /\ <<tls[t], t>> \in used

\* both modules have run and one worker handle served both
C9_Witness ==
    /\ pc = "returned"
    /\ Ended("b") /\ Ended("c")
    /\ Len(handles) = 2

-----------------------------------------------------------------------------
(* Properties of the solver and of the predecessor map *)

\* the tasks reachable from the seed names through requires edges, each name
\* resolved by the database
RECURSIVE Reach(_)
Reach(ids) ==
    LET next == ids \cup
                UNION {{TaskDB_get(taskdb, taskdb.obj[i].requires[k]) :
                           k \in 1..Len(taskdb.obj[i].requires)} : i \in ids \ {0}}
    IN IF next = ids THEN ids ELSE Reach(next)

SeedTasks == {TaskDB_get(taskdb, modules[k]) : k \in 1..Len(modules)}

\* the names of the enabled tasks reachable from the seed
Expected == {taskdb.obj[i].name : i \in {j \in Reach(SeedTasks) \ {0} :
                                            enabled(taskdb.obj[j], broker)}}

\* C10: when solve returns, its result is exactly the set of the names of
\* the enabled tasks reachable from the seed through requires edges
C10_SolveExact == pc = "run" => solved = Expected

\* every task is the current provider of its own name: no task registered
\* after it provides that name
Unshadowed ==
    \A i \in 1..Len(taskdb.obj) : TaskDB_get(taskdb, taskdb.obj[i].name) = i

\* C10, for databases in which no task name is shadowed: there the result of
\* solve is exactly the expected set
C10_SolveExactUnshadowed == Unshadowed => C10_SolveExact

\* a solve over a database without shadowing that followed a requires edge
\* through an alias and left a rank-excluded task out
C10_UnshadowedWitness ==
    /\ pc = "run"
    /\ Unshadowed
    /\ solved = {"b", "c"}
    /\ modules = <<"c">>

\* C11: the solver terminates on every task database: it never runs into
\* the interpreter's recursion limit, whatever cycles the requires lists form
C11_SolverTerminates == error # "RecursionError"

\* the state in which solve stopped on the seed
SolveState ==
    solve_tasks_recursive(taskdb, broker, modules,
        [visited |-> {}, skipped |-> {}, err |-> ""], 1)

\* the tasks the solver visited
VisitedTasks ==
    {i \in 1..Len(taskdb.obj) : taskdb.obj[i].name \in SolveState.visited}

\* a seed name, or a name required by a visited task, has no entry
Dangling ==
    \/ \E k \in 1..Len(modules) : TaskDB_get(taskdb, modules[k]) = 0
    \/ \E i \in VisitedTasks : \E k \in 1..Len(taskdb.obj[i].requires) :
          TaskDB_get(taskdb, taskdb.obj[i].requires[k]) = 0

NothingStarted ==
    /\ nfutures = 0
    /\ \A i \in 1..Len(taskdb.obj) : taskdb.obj[i].starttime = None

\* C12: when a seed name or a name required by a visited task has no entry
\* in the database, load fails with the ValueError of TaskDB.get and no body
\* has been started
C12_NotFound ==
    pc # "load" /\ Dangling =>
        pc = "raised" /\ error = "ValueError" /\ NothingStarted

\* C12, for the solves that do not run into the recursion limit
C12_NotFoundUnlessRecursion == C11_SolverTerminates => C12_NotFound

\* a solve that failed on the unknown name x required by task c
C12_DanglingWitness ==
    /\ pc = "raised"
    /\ error = "ValueError"
    /\ Dangling
    /\ modules = <<"c">>

\* the predecessor sets of a map
PredSets(d) == [n \in DOMAIN d |-> Range(d[n])]

\* the database in which, instead of task a declaring before=[b], the task
\* that b resolves to declares after=[a]
DualDB ==
    LET i == decl[1]
        b == TaskDB_get(taskdb, decl[2])
        without == [taskdb EXCEPT
                      !.obj[i].before = SubSeq(@, 1, Len(@) - 1)]
    IN [without EXCEPT !.obj[b].after = Append(@, taskdb.obj[i].name)]

\* C7: with a and b both in the solved set, a declaring before=[b] gives the
\* same predecessor set for every task as b declaring after=[a]
C7_Duality ==
    /\ pc = "run"
    /\ decl # <<>>
    /\ taskdb.obj[decl[1]].name \in solved
    /\ TaskDB_get(taskdb, decl[2]) # 0
    /\ NameOf(taskdb, decl[2]) \in solved
    => LET dual == get_deps(DualDB, SetToSeq(solved))
       IN dual.err = "" /\ PredSets(dual.deps) = PredSets(deps)

\* C7, for databases in which no task name is shadowed: there the two
\* declarations give the same predecessor sets
C7_DualityUnshadowed == Unshadowed => C7_Duality

\* task a declared before=["svc"], the alias of another task of the solved
\* set, in a database without shadowing
C7_UnshadowedWitness ==
    /\ pc = "run"
    /\ Unshadowed
    /\ decl = <<1, "svc">>
    /\ TaskDB_get(taskdb, "svc") = 2
    /\ {"a", "b"} \subseteq solved
    /\ "a" \in Range(deps["b"])

-----------------------------------------------------------------------------
(* Properties of the needs *)

\* the list handed to Modprobe.active_tasks
Activated == oplog[1][2]

\* the task a name of the active list stands for
ActiveTask(n) == taskdb.obj[get_task(taskdb, n)]

\* C13: once process_needs has pruned the active list, every name left in it
\* has each of its needs provided by a non-disabled task of the pruned list
C13_NeedsFixedPoint ==
    oplog # <<>> =>
        \A i \in 1..Len(active) :
            \A k \in 1..Len(ActiveTask(active[i]).needs) :
                any_provides(taskdb, active, ActiveTask(active[i]).needs[k]).val

\* no task of the database is named 'need' or provides it
Unprovided(need) ==
    \A i \in 1..Len(taskdb.obj) :
        need # taskdb.obj[i].name /\ ~Contains(taskdb.obj[i].provides, need)

\* C14: a task that needs a service no task provides is never started,
\* whether the list went through active_tasks or straight to Modprobe.load
C14_UnprovidedNeedNeverRuns ==
    \A i \in 1..Len(taskdb.obj) :
        (\E k \in 1..Len(taskdb.obj[i].needs) : Unprovided(taskdb.obj[i].needs[k]))
            => taskdb.obj[i].starttime = None

\* the tasks of the activated list that provide 'need'
Providers(need) ==
    {j \in 1..Len(Activated) :
        need = ActiveTask(Activated[j]).name
            \/ Contains(ActiveTask(Activated[j]).provides, need)}

\* C15: a task of the activated list with a need whose providers in that
\* list are all not enabled on this rank is dropped from what active_tasks
\* returns and is not started
C15_NeedsEnabledProvider ==
    oplog # <<>> =>
        \A i \in 1..Len(Activated) :
            (\E k \in 1..Len(ActiveTask(Activated[i]).needs) :
                LET need == ActiveTask(Activated[i]).needs[k] IN
                /\ Providers(need) # {}
                /\ \A j \in Providers(need) :
                       ~enabled(ActiveTask(Activated[j]), broker))
            => /\ ~Contains(modules, Activated[i])
               /\ ActiveTask(Activated[i]).starttime = None

-----------------------------------------------------------------------------
(* Properties of the task database *)

\* the task object is registered under key k: k is its name or an alias
Under(id, k) ==
    k = taskdb.obj[id].name \/ Contains(taskdb.obj[id].provides, k)

\* call e is a set_alternative(service, X) that succeeded, X not None
Selects(e, service) ==
    e[1] = "set_alternative" /\ e[2] = service /\ e[3] # None /\ e[4] = ""

\* call e changes the list of the service: an add under it or a selection
Rearranges(e, service) ==
    \/ e[1] = "add" /\ Under(e[3], service)
    \/ e[1] = "set_alternative" /\ e[2] = service /\ e[3] # None

\* since call i no call has changed the list of the service
Standing(i, service) ==
    \A j \in (i + 1)..Len(oplog) : ~Rearranges(oplog[j], service)

\* get(service) returns the task named X for as long as the selection
\* of X stands
C16_Selected ==
    \A i \in 1..Len(oplog) : \A service \in DBServices :
        Selects(oplog[i], service) /\ Standing(i, service)
            => /\ get_task(taskdb, service) # 0
               /\ NameOf(taskdb, service) = oplog[i][3][1]

\* a set_alternative step leaves get as it was for every other key
C16_OtherKeys ==
    Len(oplog') = Len(oplog) + 1 /\ Last(oplog')[1] = "set_alternative"
        => \A k \in Keys \ {Last(oplog')[2]} :
               get_task(taskdb', k) = get_task(taskdb, k)

\* C16: after a successful set_alternative(service, X), get(service) returns
\* the task named X until another add or set_alternative on that service,
\* and the call changes what get returns for no other key
C16_Alternative == [](C16_Selected) /\ [][C16_OtherKeys]_vars

\* svc had two providers with b current; a was selected and is now current
C16_Witness ==
    /\ Len(oplog) = 3
    /\ oplog[3] = <<"set_alternative", "svc", Some("a"), "">>
    /\ taskdb.tasks["svc"] = <<2, 1>>
    /\ taskdb.obj[1].name = "a"
    /\ taskdb.obj[2].name = "b"

\* the number of tasks added by the first i calls
RECURSIVE AddsUpTo(_)
AddsUpTo(i) ==
    IF i = 0 THEN 0
    ELSE AddsUpTo(i - 1) + (IF oplog[i][1] = "add" THEN 1 ELSE 0)

\* call e is disable(service) or set_alternative(service, None)
Disables(e, service) ==
    \/ e[1] = "disable" /\ e[2] = service
    \/ e[1] = "set_alternative" /\ e[2] = service /\ e[3] = None

\* C17: every task that was registered under a service when the service was
\* disabled stays disabled, through whichever key it is looked up and on
\* every rank, also after later selections
C17_DisabledStaysDisabled ==
    \A i \in 1..Len(oplog) : \A service \in DBServices :
        Disables(oplog[i], service) =>
            \A id \in 1..AddsUpTo(i) :
                Under(id, service) =>
                    /\ taskdb.obj[id].disabled
                    /\ \A k \in Keys : \A n \in 1..Len(taskdb.tasks[k]) :
                          taskdb.tasks[k][n] = id =>
                              \A r \in Ranks :
                                  ~enabled(taskdb.obj[taskdb.tasks[k][n]],
                                           [broker EXCEPT !.rank = r])

\* svc with providers a and b was disabled, then a was selected for svc:
\* a is current for svc and for its own name, and still disabled
C17_Witness ==
    /\ Len(oplog) = 4
    /\ Disables(oplog[3], "svc")
    /\ oplog[4] = <<"set_alternative", "svc", Some("a"), "">>
    /\ taskdb.tasks["svc"] = <<2, 1>>
    /\ get_task(taskdb, "a") = 1
    /\ taskdb.obj[1].disabled /\ taskdb.obj[2].disabled

\* some task was added with k as its name or alias
Added(k) == \E id \in 1..Len(taskdb.obj) : Under(id, k)

\* the task added last among those with k as name or alias
LatestUnder(k) ==
    CHOOSE id \in 1..Len(taskdb.obj) :
        Under(id, k) /\ \A j \in (id + 1)..Len(taskdb.obj) : ~Under(j, k)

\* C18: a get(k) just made succeeded if k was ever added as a name or an
\* alias; the task it returned is the tail of k's list and has k as its name
\* or alias; with no selection made on k it is the task added last under k
C18_GetCurrent ==
    oplog # <<>> /\ Last(oplog)[1] = "get" =>
        LET k == Last(oplog)[2]
            r == Last(oplog)[3]
        IN /\ Added(k) <=> r # 0
           /\ r # 0 => /\ r = Last(taskdb.tasks[k])
                        /\ Under(r, k)
           /\ Added(k) /\ (\A i \in 1..Len(oplog) : ~Selects(oplog[i], k))
                 => r = LatestUnder(k)

\* get("svc") after a and b were added under svc and svc was disabled
C18_Witness ==
    /\ Len(oplog) = 4
    /\ oplog[3] = <<"disable", "svc">>
    /\ oplog[4] = <<"get", "svc", 2>>
    /\ taskdb.tasks["svc"] = <<1, 2>>

\* C19: no two tasks of the database have the same name: registering a name
\* a second time is rejected and leaves the database as it was
C19_DuplicateRejected ==
    \A i, j \in 1..Len(taskdb.obj) :
        i # j => taskdb.obj[i].name # taskdb.obj[j].name

-----------------------------------------------------------------------------
(* Properties of the removal planner *)

\* the list handed to Modprobe.remove; an empty list asks for every loaded
\* module that has a task
Requested ==
    IF oplog[1][2] = <<>>
    THEN SelectSeq(loaded_modules(loaded), LAMBDA x : has_task(taskdb, x))
    ELSE oplog[1][2]

\* the loaded modules marked for removal
Removing ==
    {n \in Range(loaded_modules(loaded)) :
        has_task(taskdb, n) /\ taskdb.obj[get_task(taskdb, n)].run = "remove"}

\* the loaded modules that have a task
Known == {n \in Range(loaded_modules(loaded)) : has_task(taskdb, n)}

\* the after and before lists module n was registered with (set_remove has
\* swapped them if n is marked for removal)
AfterOf(n) ==
    LET t == taskdb.obj[get_task(taskdb, n)]
    IN IF t.run = "remove" THEN t.before ELSE t.after

BeforeOf(n) ==
    LET t == taskdb.obj[get_task(taskdb, n)]
    IN IF t.run = "remove" THEN t.after ELSE t.before

\* every ordering declared by a loaded module names a task of the database
OrderResolves ==
    \A n \in Known : Resolves(taskdb, AfterOf(n)) /\ Resolves(taskdb, BeforeOf(n))

\* the loaded module that serves the task a declared name stands for
Serving(x) == lookup(loaded, NameOf(taskdb, x))

\* the loaded modules that come after module m in the load order: they
\* declare m, or a service of m, in 'after', or m declares them in 'before'
Dependents(m) ==
    {d \in Known \ {m} :
        \/ \E i \in 1..Len(AfterOf(d)) : Serving(AfterOf(d)[i]) = m
        \/ \E i \in 1..Len(BeforeOf(m)) : Serving(BeforeOf(m)[i]) = d}

\* nothing was marked for removal and no body was started
NothingRemoved == Removing = {} /\ NothingStarted

\* the request, all of whose names are loaded, names module m, by its name
\* or by a service, the declared orderings resolve, and a loaded dependent
\* of m is not being removed
InUseBy(m) ==
    /\ \A i \in 1..Len(Requested) : lookup(loaded, Requested[i]) # NotLoaded
    /\ \E i \in 1..Len(Requested) : lookup(loaded, Requested[i]) = m
    /\ OrderResolves
    /\ ~(Dependents(m) \subseteq Removing)

\* C20: a removal request naming a loaded module that still has a loaded
\* dependent outside the removal set is refused with the in-use error, and
\* no module is marked for removal or removed
C20_InUseRefused ==
    pc # "remove" =>
        \A m \in Range(loaded_modules(loaded)) :
            InUseBy(m) => pc = "raised" /\ error = InUse /\ NothingRemoved

\* the same for the modules the request names by their own name
C20_InUseRefusedByName ==
    pc # "remove" =>
        \A m \in Range(loaded_modules(loaded)) :
            InUseBy(m) /\ Contains(Requested, m)
                => pc = "raised" /\ error = InUse /\ NothingRemoved

\* remove(["a"]) was refused: b, loaded and not requested, comes after a
C20_ByNameWitness ==
    /\ pc = "raised"
    /\ error = InUse
    /\ oplog = <<<<"remove", <<"a">>>>>>
    /\ "b" \in Dependents("a")

-----------------------------------------------------------------------------
(* Properties of teardown *)

\* the calls of Modprobe.remove made so far
RemoveCalls == {i \in 1..Len(oplog) : oplog[i][1] = "remove"}

\* the loaded modules whose requires list names module m or a service of m
RequiredBy(m) ==
    {d \in Known \ {m} :
        LET req == taskdb.obj[get_task(taskdb, d)].requires
        IN \E i \in 1..Len(req) :
              has_task(taskdb, req[i]) /\ Serving(req[i]) = m}

\* C21: a first removal request that names a loaded module which another
\* loaded module, not being removed, requires is refused with the in-use
\* error and removes nothing
C21_RequiredInUse ==
    pc # "remove" /\ Cardinality(RemoveCalls) = 1 =>
        \A m \in Known :
            Contains(Requested, m) /\ ~(RequiredBy(m) \subseteq Removing)
                => pc = "raised" /\ error = InUse /\ NothingRemoved

\* the modules whose task is marked for removal
Marked ==
    {taskdb.obj[i].name : i \in {j \in 1..Len(taskdb.obj) : taskdb.obj[j].run = "remove"}}

\* the modules for which a module.remove request has been answered
RemoveRequests ==
    {oplog[i][2] : i \in {j \in 1..Len(oplog) : oplog[j][1] = "module.remove"}}

\* the first call of Modprobe.remove names one module, by its own name; the
\* module is loaded, has a task, and no loaded module follows it in the
\* load order or requires it
RemovesLeaf(m) ==
    /\ Cardinality(RemoveCalls) = 1
    /\ oplog[1][2] = <<m>>
    /\ m \in Known
    /\ OrderResolves
    /\ Dependents(m) = {}
    /\ RequiredBy(m) = {}

\* the plan has just been made: no request has been sent to the broker
Planned == pc # "remove" /\ Len(oplog) = 1

Unused(R) == {p \in Known : Dependents(p) # {} /\ Dependents(p) \subseteq R}

\* the least set that contains R and the modules unused without it
RECURSIVE RemovalClosure(_)
RemovalClosure(R) ==
    IF Unused(R) \subseteq R THEN R ELSE RemovalClosure(R \cup Unused(R))

TaskOf(n) == taskdb.obj[get_task(taskdb, n)]

\* module a is a load-order predecessor of module b: b names a, or a service
\* a provides, in 'after', or a names b in 'before'
LoadsBefore(a, b) ==
    \/ \E i \in 1..Len(AfterOf(b)) :
          has_task(taskdb, AfterOf(b)[i]) /\ NameOf(taskdb, AfterOf(b)[i]) = a
    \/ \E i \in 1..Len(BeforeOf(a)) :
          has_task(taskdb, BeforeOf(a)[i]) /\ NameOf(taskdb, BeforeOf(a)[i]) = b

LastRemoveCall == CHOOSE i \in RemoveCalls : \A j \in RemoveCalls : j <= i

\* the same request was made a second time, after a first run that returned
\* with exit code 0
RemovedAgain == Cardinality(RemoveCalls) = 2 /\ pc # "remove"

\* the second call raised nothing and sent no request to the broker, so the
\* loaded modules are those the first run left
SecondCallQuiet ==
    /\ pc # "raised"
    /\ error = ""
    /\ \A i \in 1..Len(oplog) : i > LastRemoveCall => oplog[i][1] # "module.remove"

\* C24: a removal request run a second time after a first run that
\* succeeded reports no error and leaves the loaded modules as they were,
\* for 'remove all' and for named modules
C24_Idempotent == RemovedAgain => SecondCallQuiet

\* the part of C24 about 'remove all' (an empty request)
C24_RemoveAllIdempotent == RemovedAgain /\ oplog[1][2] = <<>> => SecondCallQuiet

\* 'remove all' was run twice and the second run has returned
C24_RemoveAllWitness ==
    /\ RemovedAgain
    /\ oplog[1][2] = <<>>
    /\ pc = "returned"
    /\ loaded = <<>>
    /\ RemoveRequests = {"a", "b", "c"}

\* the answered module.remove requests: positions in the history
RemoveReplies == {i \in 1..Len(oplog) : oplog[i][1] = "module.remove"}

\* the futures whose outcome the loop of run has processed
Reaped == {f \in 1..Len(result) : result[f].state # "pending" /\ f \notin DOMAIN futures}

\* the exit code is 1 exactly when a processed task has failed
FailuresCounted == exitcode = 1 <=> \E f \in Reaped : result[f].state = "raise"

\* C25: a module.remove answered with 'not found' counts as a success of
\* the removal task and leaves the exit code alone; any other error makes
\* the task a failure and sets the exit code to 1, and the other tasks of
\* the run are still executed
C25_NotFoundTolerated ==
    /\ \A i \in RemoveReplies :
          result[oplog[i][4]].state = IF oplog[i][3] = "error" THEN "raise" ELSE "ok"
    /\ FailuresCounted
    /\ \A f \in Reaped :
          result[f].state = "raise" <=> Contains(stderr, taskdb.obj[result[f].task].name)
    /\ pc = "returned" /\ Cardinality(RemoveCalls) = 1 => Marked \subseteq RemoveRequests

\* three removals: the first is answered with an error, the second with
\* 'not found', the third succeeds; only the first is reported
C25_Witness ==
    /\ pc = "returned"
    /\ Len(oplog) = 4
    /\ oplog[2][3] = "error"
    /\ oplog[3][3] = "ENOENT"
    /\ oplog[4][3] = "ok"
    /\ stderr = <<oplog[2][2]>>
    /\ exitcode = 1
    /\ result[oplog[3][4]].state = "ok"

-----------------------------------------------------------------------------
(* Properties of submission *)

\* no task has two futures in one run: its body is started at most once
NoBodyTwice ==
    \A f \in 1..Len(result) : \A g \in 1..Len(result) :
        f # g /\ result[f].run = result[g].run => result[f].task # result[g].task

\* the task each name of the map stands for has been submitted in this run
AllSubmitted ==
    \A n \in Nodes(deps) :
        \E f \in 1..Len(result) :
            result[f].run = runs /\ result[f].task = get_task(taskdb, n)

\* C26: in one run every task of the predecessor map is submitted exactly
\* once: no body is started twice, also when several names of the map
\* resolve to one task, and no task of the map is left unstarted
C26_SubmittedOnce == []NoBodyTwice /\ ((pc = "loop") ~> AllSubmitted)

\* the same for the maps whose names are all canonical
C26_SubmittedOnceCanonical ==
    []NoBodyTwice /\ ((pc = "loop" /\ CanonicalMap) ~> AllSubmitted)

\* two names of the map resolve to task c, which was submitted once
C26_SharedTaskWitness ==
    /\ {"b", "c"} \subseteq DOMAIN deps
    /\ get_task(taskdb, "b") = get_task(taskdb, "c")
    /\ "c" \in DOMAIN started
    /\ ready = {}
    /\ pc = "wait"

-----------------------------------------------------------------------------
(* Properties of the predecessor map *)

\* the tasks of the map that declare before=["*"]
Stars == {n \in DOMAIN deps : Contains(TaskOf(n).before, "*")}

\* u is declared a predecessor of t otherwise than by u's before=["*"]: t
\* names u, or "*", in 'after', or u names t in 'before'
NamedEdge(u, t) ==
    \/ Contains(TaskOf(t).after, "*")
    \/ \E i \in 1..Len(TaskOf(t).after) :
          has_task(taskdb, TaskOf(t).after[i]) /\ NameOf(taskdb, TaskOf(t).after[i]) = u
    \/ \E i \in 1..Len(TaskOf(u).before) :
          /\ TaskOf(u).before[i] # "*"
          /\ has_task(taskdb, TaskOf(u).before[i])
          /\ NameOf(taskdb, TaskOf(u).before[i]) = t

\* no task of the map declares an ordering other than before=["*"]
OnlyStars ==
    \A n \in DOMAIN deps :
        TaskOf(n).after = <<>> /\ Range(TaskOf(n).before) \subseteq {"*"}

\* C27: a before=["*"] task receives no other before=["*"] task as a
\* predecessor through the wildcard; with two or more such tasks and no
\* other edge between them, each precedes every task that does not declare
\* before=["*"], and prepare finds no cycle in a map built from such
\* declarations alone
C27_Exclusion ==
    /\ \A t \in Stars : \A u \in Stars \ {t} :
          Contains(deps[t], u) => NamedEdge(u, t)
    /\ Cardinality(Stars) >= 2 /\ (\A t \in Stars : \A u \in Stars \ {t} : ~NamedEdge(u, t))
          => /\ \A u \in Stars : \A n \in DOMAIN deps \ Stars : Contains(deps[n], u)
             /\ OnlyStars => error # "CycleError"

\* a and b both declare before=["*"], c does not: prepare has accepted the
\* map, in which a and b precede c and have no predecessor
C27_Witness ==
    /\ pc = "loop"
    /\ Stars = {"a", "b"}
    /\ DOMAIN deps = {"a", "b", "c"}
    /\ deps["a"] = <<>>
    /\ deps["b"] = <<>>
    /\ Range(deps["c"]) = {"a", "b"}

\* the task whose own name is n
Own(n) == taskdb.obj[CHOOSE i \in 1..Len(taskdb.obj) : taskdb.obj[i].name = n]

\* the names of a list, each replaced by the name of the task it resolves to
Canonical(names) == {NameOf(taskdb, names[i]) : i \in 1..Len(names)}

\* the predecessors task t of S gets from its own 'after'
AfterPreds(S, t) ==
    IF Contains(Own(t).after, "*") THEN S \ {t}
    ELSE Canonical(Own(t).after) \cap S

\* the predecessors task t of S gets from the 'before' of the tasks of S
BeforePreds(S, t) ==
    {u \in S :
        \/ Contains(Own(u).before, "*") /\ ~Contains(Own(t).before, "*")
        \/ t \in Canonical(SelectSeq(Own(u).before, LAMBDA x : x # "*"))}

\* get_deps has returned a map for the solved set
Mapped == pc \in {"run", "loop"} \/ error = "CycleError"

\* the map has one key per task of S; the predecessors of t are the tasks
\* of S that t's 'after' stands for, with those that come 'before' t
DepsExact(S) ==
    /\ DOMAIN deps = S
    /\ \A t \in S : Range(deps[t]) = AfterPreds(S, t) \cup BeforePreds(S, t)

\* C28: get_deps returns a map with exactly one key per task of the solved
\* set S, whose predecessor lists hold names of S only: from 'after', the
\* canonical names of t.after that are in S, or S minus t when t.after has
\* "*"
C28_DepsExact == Mapped => DepsExact(solved)

\* the same for the databases in which no task name is shadowed
C28_DepsExactUnshadowed == Mapped /\ Unshadowed => DepsExact(solved)

\* c comes after svc, an alias of b, and after nothing outside the solved
\* set {b, c}: its only predecessor is b
C28_UnshadowedWitness ==
    /\ Mapped
    /\ solved = {"b", "c"}
    /\ Unshadowed
    /\ Own("c").after = <<"svc">>
    /\ deps["c"] = <<"b">>
    /\ deps["b"] = <<>>

-----------------------------------------------------------------------------
(* Properties of the solver on tasks that are not enabled *)

\* the tasks, reachable from the seed, that are not enabled
ReachedNotEnabled ==
    {i \in Reach(SeedTasks) \ {0} : ~enabled(taskdb.obj[i], broker)}

\* the enabled tasks that a requires entry of task i resolves to
RequiredEnabled(i) ==
    {j \in {TaskDB_get(taskdb, taskdb.obj[i].requires[k]) :
                k \in 1..Len(taskdb.obj[i].requires)} \ {0} :
        enabled(taskdb.obj[j], broker)}

\* the solver left the task that is not enabled out and took the enabled
\* tasks it requires
FollowedThrough(i) ==
    /\ taskdb.obj[i].name \notin solved
    /\ \A j \in RequiredEnabled(i) : taskdb.obj[j].name \in solved

\* C29: the solver follows the requires of a task that is not enabled: the
\* enabled tasks it requires are in the solved set, the task itself is not
C29_FollowsDisabled ==
    pc = "run" => \A i \in ReachedNotEnabled : FollowedThrough(i)

\* the same for the databases in which no task name is shadowed
C29_FollowsDisabledUnshadowed ==
    pc = "run" /\ Unshadowed => \A i \in ReachedNotEnabled : FollowedThrough(i)

\* load(["a"]): a requires b, which is disabled and requires c; the solved
\* set is {a, c}
C29_UnshadowedWitness ==
    /\ pc = "run"
    /\ Unshadowed
    /\ modules = <<"a">>
    /\ taskdb.obj[2].disabled
    /\ taskdb.obj[1].requires = <<"b">>
    /\ taskdb.obj[2].requires = <<"c">>
    /\ solved = {"a", "c"}

-----------------------------------------------------------------------------
(* Properties of a failed selection *)

\* the step is a call set_alternative(service, name) with a name that no
\* task registered under the service carries
SelectsUnknown ==
    /\ Len(oplog') = Len(oplog) + 1
    /\ Last(oplog')[1] = "set_alternative"
    /\ Last(oplog')[3] # None
    /\ \A n \in 1..Len(taskdb.tasks[Last(oplog')[2]]) :
          taskdb.obj[taskdb.tasks[Last(oplog')[2]][n]].name # Last(oplog')[3][1]

\* the call raised, get returns what it returned for every key, and no
\* task's disabled flag has changed
FailedUnchanged ==
    /\ Last(oplog')[4] = "ValueError"
    /\ pc' = "raised"
    /\ error' = "ValueError"
    /\ \A k \in DOMAIN taskdb.tasks : TaskDB_get(taskdb', k) = TaskDB_get(taskdb, k)
    /\ Len(taskdb'.obj) = Len(taskdb.obj)
    /\ \A i \in 1..Len(taskdb.obj) : taskdb'.obj[i].disabled = taskdb.obj[i].disabled

\* C30: set_alternative(service, name) with a name that no provider
\* registered under service carries fails with the not-found error and
\* changes nothing: get returns the same task for every key and no disabled
\* flag changes
C30_FailedSelection == [][SelectsUnknown => FailedUnchanged]_vars

\* svc is provided by a alone; set_alternative("svc", "b"), with b a
\* registered task, has raised and a is still current and enabled
C30_Witness ==
    /\ pc = "raised"
    /\ Len(oplog) = 3
    /\ Last(oplog) = <<"set_alternative", "svc", Some("b"), "ValueError">>
    /\ Len(taskdb.tasks["svc"]) = 1
    /\ taskdb.obj[TaskDB_get(taskdb, "svc")].name = "a"
    /\ ~taskdb.obj[TaskDB_get(taskdb, "svc")].disabled
    /\ TaskDB_get(taskdb, "b") # 0

-----------------------------------------------------------------------------
(* Properties of Task.enabled *)

\* the rank predicate of task t rejects the local rank
RankRejects(t) ==
    \/ t.ranks.cls = "RankIDset" /\ ~t.ranks.all /\ broker.rank \notin t.ranks.ranks
    \/ t.ranks.cls = "RankConditional" /\ t.ranks.gt /\ ~(broker.rank > t.ranks.rank)
    \/ t.ranks.cls = "RankConditional" /\ ~t.ranks.gt /\ ~(broker.rank < t.ranks.rank)

\* the key is absent from the table or its value is empty
AbsentOrEmpty(table, key) == key \notin DOMAIN table \/ table[key] = ""

\* one of the reasons for which a task is not enabled
NotEnabled(t) ==
    \/ t.disabled
    \/ RankRejects(t)
    \/ \E i \in 1..Len(t.requires_config) : AbsentOrEmpty(broker.conf, t.requires_config[i])
    \/ \E i \in 1..Len(t.requires_attrs) : AbsentOrEmpty(broker.attrs, t.requires_attrs[i])

\* C31: enabled is false exactly when the task is disabled, its rank
\* predicate rejects the local rank, or a required configuration key or
\* attribute is absent or empty; the solver keeps the task exactly when it
\* is enabled, and evaluating enabled changes no task and no database entry
C31_Enabled ==
    /\ \A i \in 1..Len(taskdb.obj) :
          enabled(taskdb.obj[i], broker) <=> ~NotEnabled(taskdb.obj[i])
    /\ pc = "run" =>
          \A i \in 1..Len(taskdb.obj) :
              taskdb.obj[i].name \in solved <=> ~NotEnabled(taskdb.obj[i])
    /\ taskdb \in {AddAll(EmptyDB, cat) : cat \in EnabledCatalogues}

\* a task with ranks '>1' and its key and attribute set was kept on rank 2
C31_Witness ==
    /\ pc = "run"
    /\ solved = {"a"}
    /\ broker.rank = 2
    /\ taskdb.obj[1].ranks = [cls |-> "RankConditional", gt |-> TRUE, rank |-> 1]
    /\ taskdb.obj[1].requires_config = <<"key">>
    /\ taskdb.obj[1].requires_attrs = <<"attr">>

\* the same task was left out on rank 1, which '>1' rejects
C31_BoundaryWitness ==
    /\ pc = "run"
    /\ solved = {}
    /\ broker.rank = 1
    /\ taskdb.obj[1].ranks = [cls |-> "RankConditional", gt |-> TRUE, rank |-> 1]
    /\ ~taskdb.obj[1].disabled
    /\ ~AbsentOrEmpty(broker.conf, "key")
    /\ ~AbsentOrEmpty(broker.attrs, "attr")

-----------------------------------------------------------------------------
(* Properties of the removal closure *)

\* the loaded modules the first request names, by name or by service
Named == {Serving(Requested[i]) : i \in 1..Len(Requested)} \cap Known

\* C32: after a removal has been planned, every loaded module that has
\* reverse dependents, all of them in the removal set, is in the removal
\* set, and a module the request does not name is in the removal set only
\* if it has reverse dependents and all of them are in the removal set
C32_Closure ==
    Planned /\ pc # "raised" =>
        /\ \A p \in Known :
              Dependents(p) # {} /\ Dependents(p) \subseteq Marked => p \in Marked
        /\ \A p \in Marked \ Named :
              Dependents(p) # {} /\ Dependents(p) \subseteq Marked
        /\ Named \subseteq Marked

\* remove(["c"]) with b and c both after a, all loaded: a has the reverse
\* dependent b outside the removal set and stays
C32_Witness ==
    /\ Planned
    /\ pc # "raised"
    /\ oplog[1][2] = <<"c">>
    /\ Dependents("a") = {"b", "c"}
    /\ Marked = {"c"}

-----------------------------------------------------------------------------
(* Properties of the teardown graph of the flux-modprobe command *)

\* the command has solved a removal at runlevel 3
CliRemoval ==
    /\ cli # NoCli
    /\ pc \in {"prepared", "raised"}
    /\ error # "ValueError"
    /\ cli.object.reverse_dependencies
    /\ cli.runlevel = 3

\* the modules being removed
CliRemoved == {n \in solved : Item(cli.object.tasks, n).run = "remove"}

\* the teardown tasks in the graph
CliTeardown == {n \in solved : Item(cli.object.tasks, n).runlevel = 3}

\* the graph the same configuration gives in load order
CliLoadOrder ==
    AsGraph(solve_all(CliModprobe(cli.conf, FALSE, cli.object.rank, FALSE), broker,
                      cli.runlevel).deps)

\* the edges of the load-order graph, reversed
CliReversed(n) == {x \in DOMAIN CliLoadOrder : Contains(CliLoadOrder[x], n)}

\* C33: in the teardown graph a teardown task without after entries has every
\* module being removed as a predecessor, a teardown task with after entries
\* has as added predecessors only its after entries present in the graph, and
\* the graph is acyclic whenever the load-order graph was
C33_TeardownGraph ==
    CliRemoval =>
        /\ \A n \in CliTeardown :
              LET task == Item(cli.object.tasks, n)
              IN IF task.after = <<>>
                 THEN CliRemoved \subseteq Range(deps[n])
                 ELSE Range(deps[n]) \ CliReversed(n)
                          \subseteq Range(task.after) \cap DOMAIN deps
        /\ CycleNodes(CliLoadOrder, Nodes(CliLoadOrder)) = {}
              => error # "CycleError"

\* the part of C33 about teardown tasks that declare after entries
C33_AfterEntries ==
    CliRemoval =>
        \A n \in CliTeardown :
            LET task == Item(cli.object.tasks, n)
            IN task.after # <<>> =>
                  Range(deps[n]) \ CliReversed(n)
                      \subseteq Range(task.after) \cap DOMAIN deps

C33_AfterWitness ==
    /\ CliRemoval
    /\ "t" \in CliTeardown
    /\ Item(cli.object.tasks, "t").after = <<"a", "zz">>
    /\ Range(deps["t"]) = {"a"}

-----------------------------------------------------------------------------
(* Properties of task timing *)

\* C34: every task that was started has starttime and endtime recorded when
\* run finishes, also when its body raised, and producing the timing records
\* after a run with a failed task does not fail
C34_TimesRecorded ==
    cli # NoCli =>
        /\ pc = "returned" =>
              \A n \in cli.object.started :
                  /\ Item(cli.object.tasks, n).starttime # None
                  /\ Item(cli.object.tasks, n).endtime # None
        /\ error # "AttributeError"

\* the same for Modprobe.run of the Python binding, whose runtask assigns
\* endtime in a finally clause
C34_TimesRecordedBinding ==
    pc = "returned" /\ cli = NoCli =>
        \A n \in DOMAIN started :
            /\ taskdb.obj[started[n]].starttime # None
            /\ taskdb.obj[started[n]].endtime # None

C34_BindingWitness ==
    /\ pc = "returned"
    /\ cli = NoCli
    /\ exitcode = 1
    /\ DOMAIN started # {}

-----------------------------------------------------------------------------
(* Properties of the restore tasks of rc1 *)

\* rank 0 with content.restore set and an enabled provider of content-backing
Rc1Restoring ==
    /\ broker.rank = 0
    /\ Truthy(broker.attrs, "content.restore")
    /\ get_task(taskdb, "content-backing") # 0
    /\ enabled(TaskNamed("content-backing"), broker)

\* C35: in rc1 on rank 0 with content.restore set and an enabled provider of
\* content-backing, check-restore completes before the load of the module
\* providing content-backing starts, restore starts only after check-restore
\* and that load have completed, and restore completes before the load of kvs
\* starts; so restore reads the context only after check-restore has ended
C35_RestoreOrder ==
    Rc1Restoring =>
        /\ Precedes("check-restore", "content-backing")
        /\ Precedes("check-restore", "restore")
        /\ Precedes("content-backing", "restore")
        /\ Precedes("restore", "kvs")

\* rc1 ran check-restore, the provider, restore and kvs to the end
C35_Witness ==
    /\ Rc1Restoring
    /\ pc = "returned"
    /\ \A n \in {"check-restore", "content-backing", "restore", "kvs"} : Ended(n)
    /\ TaskNamed("content-backing").name = "content-files"
    /\ "dumpfile" \in DOMAIN context.data

-----------------------------------------------------------------------------
(* Properties of rc3 and of marking modules for removal *)

\* rc3 on rank 0 after all loaded modules, kvs and the provider of
\* content-backing among them, were marked for removal
Rc3Teardown ==
    /\ broker.rank = 0
    /\ oplog # <<>>
    /\ oplog[1] = <<"set_remove", None>>
    /\ pc # "raised"
    /\ TaskNamed("kvs").run = "remove"
    /\ TaskNamed("content-backing").run = "remove"

\* C36: in rc3 on rank 0 with the loaded modules marked for removal,
\* content-flush starts only after the removal of kvs has completed and
\* completes before the removal of the module providing content-backing
\* starts, post-finish-event completes before the removal of kvs starts, and
\* the graph of the rc3 tasks and the swapped module orderings has no cycle
C36_FlushOrder ==
    Rc3Teardown =>
        /\ Precedes("kvs", "content-flush")
        /\ Precedes("content-flush", "content-backing")
        /\ Precedes("post-finish-event", "kvs")
        /\ pc \notin {"active", "load"} => ~sorter_has_cycle(TopologicalSorter(deps))

\* rc3 ran the teardown tasks and the removals to the end
C36_Witness ==
    /\ Rc3Teardown
    /\ pc = "returned"
    /\ \A n \in {"post-finish-event", "kvs", "content-flush", "content-dump",
                 "content-backing"} : Ended(n)
    /\ TaskNamed("content-backing").name = "content-files"

\* C37: marking modules for removal any number of times leaves each marked
\* module with the body module.remove, its before and after sets the swap of
\* its load-time sets, and no needs and no requires
C37_MarkedOnce ==
    [][pc = "set_remove" =>
          \A i \in 1..Len(taskdb.obj) :
              taskdb'.obj[i].run = "remove" =>
                  /\ taskdb'.obj[i].before = taskdb.obj[i].after
                  /\ taskdb'.obj[i].after = taskdb.obj[i].before
                  /\ taskdb'.obj[i].needs = <<>>
                  /\ taskdb'.obj[i].requires = <<>>]_vars

-----------------------------------------------------------------------------
(* Properties of the in-use check under service names *)

\* the request with every name replaced by the module that serves it
ByModuleName == [i \in 1..Len(modules) |-> lookup(loaded, modules[i])]

\* C38: a removal request is refused with the in-use error exactly when the
\* request naming the same loaded modules by their module names is refused
C38_NamingIndependent ==
    pc = "remove" /\ (\A i \in 1..Len(modules) : lookup(loaded, modules[i]) # NotLoaded)
        => (solve_modules_remove(taskdb, loaded, modules).err = InUse
               <=> solve_modules_remove(taskdb, loaded, ByModuleName).err = InUse)

-----------------------------------------------------------------------------
(* Properties of check-restore without a dump to restore *)

\* rc1 returned on rank 0 with content.restore "auto" after check-restore ran
\* and left no dumpfile in the context: the symlink dump/RESTORE did not exist
AutoWithoutLink ==
    /\ broker.rank = 0
    /\ "content.restore" \in DOMAIN broker.attrs
    /\ broker.attrs["content.restore"] = "auto"
    /\ pc = "returned"
    /\ Ended("check-restore")
    /\ "dumpfile" \notin DOMAIN context.data

\* C39: in rc1 with content.restore "auto" and no symlink dump/RESTORE,
\* check-restore ends without raising and does not make the exit code
\* non-zero, no option is set on content-backing, and restore does nothing
C39_AutoWithoutLink ==
    AutoWithoutLink =>
        /\ "check-restore" \notin Range(stderr)
        /\ (Range(stderr) = {} => exitcode = 0)
        /\ "content-backing" \notin DOMAIN context.module_args
        /\ \A i \in 1..Len(oplog) : oplog[i][1] # "bash"

=============================================================================
